---- MODULE Spec2Model ----
(***************************************************************************)
(* A model of go-docker-proxy:                                             *)
(*   - InflightManager (cache_memory.go): request coalescing,              *)
(*   - FileBlobStore / FileManifestStore (cache_storage.go),               *)
(*   - CacheManager (cache_manager.go),                                    *)
(*   - DockerRegistryCache (cache.go), the cache of the proxy handler,     *)
(*   - ProxyServer (main.go): routing by host, the Docker Hub rewrites,    *)
(*     the token exchange, the handler of /v2/* with its redirects and     *)
(*     its cache.                                                          *)
(* Each subsystem has its own specification; the variables of the other    *)
(* subsystems stay at their initial values in it.                          *)
(***************************************************************************)
EXTENDS Integers, Sequences, FiniteSets, TLC

VARIABLES
    \* ---- InflightManager (cache_memory.go:94-107) ----
    inflight,        \* map key -> entry (an entry id; NoEntry when the key is absent)
    entries,         \* the heap of inflightEntry objects: done (closed?), err, watchers
    totalRequests,   \* atomic counter
    deduplicated,    \* atomic counter
    pc,              \* position of each caller goroutine
    ckey,            \* the key a caller passed to TryStart
    cent,            \* the entry captured by the caller's wait / done closure
    cctx,            \* the context a follower passed to wait
    cres,            \* the value wait returned
    \* ---- wall clock (time.Now()) ----
    now,
    \* ---- CacheManager's context, cleanup goroutine and Close ----
    cmLife,          \* ctx, the position of cleanupLoop, ticker.C, the position of Close
    \* ---- FileBlobStore (cache_storage.go:23-38) and its directory ----
    bdata,           \* data files: path -> bytes (NoFile when absent)
    bmeta,           \* sidecars <path>.meta: path -> blobMeta (NoMeta when absent)
    btmp,            \* the temp file blob-* of each worker's Put
    bindex,          \* s.index: digest -> blobMeta (NoMeta when absent)
    \* ---- CacheManager (cache_manager.go:165-185) ----
    descCache,       \* descriptorCache: digest -> Descriptor (NoDesc when absent)
    stats,           \* CacheStatistics: the counters of blobs and manifests
    \* ---- the goroutines that call the blob store ----
    work,            \* per worker: position, operation, arguments, result
    ops,             \* number of operations started
    stored,          \* history: per digest, the last Put that returned nil
    \* ---- FileManifestStore (cache_storage.go:311-318) and its directory ----
    mfile,           \* files <hash>.json: path -> file content (NoMFile when absent)
    mindex,          \* s.index: key -> *CacheEntry (NoCacheEntry when absent)
    mindexByPath,    \* s.index at the keys LoadIndex makes of the files' paths
    mres,            \* the last manifest call of the client and what it returned
    mstored,         \* history: per reference, the last Put that returned nil
    \* ---- DockerRegistryCache (cache.go:45-63) and its directory ----
    rcIndex,         \* c.index: key -> *CacheItem (NoItem when absent)
    rcStats,         \* c.stats: TotalSize, ItemCount
    rcSaves,         \* the saveToFile goroutines that Set has started
    rcData,          \* data files: key -> bytes (NoFile when absent)
    rcMeta,          \* sidecars <path>.meta: key -> cacheMetadata
    rcRes,           \* the last Set or Get a client called itself, and the items it Set
    rcDeletes,       \* the deleteFile goroutines that Get has started
    \* ---- ProxyServer (main.go:38-43) and the request it is serving ----
    pxCfg,           \* p.config, once NewProxyServer has run
    pxReq,           \* the last request a handler was called with
    pxResp,          \* what the handler wrote to the http.ResponseWriter
    pxUp,            \* the requests the handler sent with transport.RoundTrip
    pxSets           \* the goroutines `go p.cache.Set(...)` not yet run

inflightVars == <<inflight, entries, totalRequests, deduplicated, pc, ckey, cent, cctx, cres>>

blobVars == <<bdata, bmeta, btmp, bindex, descCache, stats, work, ops, stored>>

manifestVars == <<mfile, mindex, mindexByPath, mres, mstored>>

registryVars == <<rcIndex, rcStats, rcSaves, rcData, rcMeta, rcRes>>

proxyVars == <<rcDeletes, pxCfg, pxReq, pxResp, pxUp, pxSets>>

nonInflightVars == <<now, cmLife, blobVars, manifestVars, registryVars, proxyVars>>

vars == <<inflightVars, now, cmLife, blobVars, manifestVars, registryVars, proxyVars>>

(***************************************************************************)
(*                          InflightManager                                *)
(***************************************************************************)

\* Bounds of the inflight model.
NumCallers == 3
MaxRequests == 3

Callers == 1 .. NumCallers
Keys == {"k1", "k2"}
\* The values a first caller passes to done(err): nil or an error.
Errs == {"nil", "ErrNotFound"}
CtxErr == "ctx.Err"

\* At most one entry per caller is reachable from a closure or from the table.
EntryIds == 1 .. NumCallers
NoEntry == 0

\* inflightEntry{done: make(chan struct{}), watchers: 0}; err is the zero value.
NewEntry == [done |-> FALSE, err |-> "nil", watchers |-> 0]

\* The entries some closure or the table still refers to.
Referenced(tbl, ce) == {tbl[k] : k \in Keys} \cup {ce[p] : p \in Callers}

\* An address the allocator may hand out: one that nothing refers to.
FreshEntry(tbl, ce) == CHOOSE e \in EntryIds : e \notin Referenced(tbl, ce)

\* Unreachable entries are garbage: they read as a blank object.
Collect(ents, tbl, ce) ==
    [e \in EntryIds |-> IF e \in Referenced(tbl, ce) THEN ents[e] ELSE NewEntry]

InitInflight ==
    /\ inflight = [k \in Keys |-> NoEntry]
    /\ entries = [e \in EntryIds |-> NewEntry]
    /\ totalRequests = 0
    /\ deduplicated = 0
    /\ pc = [p \in Callers |-> "idle"]
    /\ ckey = [p \in Callers |-> "none"]
    /\ cent = [p \in Callers |-> NoEntry]
    /\ cctx = [p \in Callers |-> "none"]
    /\ cres = [p \in Callers |-> "none"]

\* Mutant: TryStart never finds the entry and always installs a new one.
TryStartExists_Mut(key) == FALSE

\* TryStart, the branch `entry, exists := m.inflight[key]; exists`.
TryStartExists(key) == inflight[key] # NoEntry

\* Mutant: followers are not counted.
deduplicatedAdd_Mut(n) == n
\* m.deduplicated.Add(1) (cache_memory.go:130).
deduplicatedAdd(n) == n + 1

\* TryStart(key), under m.mu (cache_memory.go:121-165).
TryStart(p, key) ==
    /\ pc[p] = "idle"
    /\ totalRequests < MaxRequests
    /\ totalRequests' = totalRequests + 1
    /\ ckey' = [ckey EXCEPT ![p] = key]
    /\ IF TryStartExists(key)
       THEN \* entry.watchers++, deduplicated++, return (false, wait, nil)
            /\ entries' = [entries EXCEPT ![inflight[key]].watchers = @ + 1]
            /\ deduplicated' = deduplicatedAdd(deduplicated)
            /\ cent' = [cent EXCEPT ![p] = inflight[key]]
            /\ pc' = [pc EXCEPT ![p] = "follower"]
            /\ UNCHANGED inflight
       ELSE \* m.inflight[key] = entry, return (true, nil, done)
            LET e == FreshEntry(inflight, cent) IN
            /\ entries' = [entries EXCEPT ![e] = NewEntry]
            /\ inflight' = [inflight EXCEPT ![key] = e]
            /\ cent' = [cent EXCEPT ![p] = e]
            /\ pc' = [pc EXCEPT ![p] = "first"]
            /\ UNCHANGED deduplicated
    /\ UNCHANGED <<cctx, cres>>
    /\ UNCHANGED nonInflightVars

\* The cases of wait's select that are ready when the follower reaches it.
SelectReady(e, ctx) ==
    (IF entries[e].done THEN {"wake_done"} ELSE {})
        \cup (IF ctx = "cancelled" THEN {"wake_ctx"} ELSE {})

\* A follower calls wait(ctx) and reaches the select (cache_memory.go:132-134,140):
\* a ready case is taken (any of them when both are ready), otherwise the
\* goroutine parks on both channels.  ctx is "background" (never cancelled),
\* "live" (may be cancelled later) or "cancelled" (already cancelled).
WaitSelect(p, ctx) ==
    /\ pc[p] = "follower"
    /\ cctx' = [cctx EXCEPT ![p] = ctx]
    /\ IF SelectReady(cent[p], ctx) = {}
       THEN pc' = [pc EXCEPT ![p] = "waiting"]
       ELSE \E c \in SelectReady(cent[p], ctx) : pc' = [pc EXCEPT ![p] = c]
    /\ UNCHANGED <<inflight, entries, totalRequests, deduplicated, ckey, cent, cres>>
    /\ UNCHANGED nonInflightVars

\* The context of a parked follower is cancelled: closing ctx.Done() wakes the
\* goroutine with the case <-ctx.Done() selected.
CtxCancel(p) ==
    /\ pc[p] = "waiting"
    /\ cctx[p] = "live"
    /\ cctx' = [cctx EXCEPT ![p] = "cancelled"]
    /\ pc' = [pc EXCEPT ![p] = "wake_ctx"]
    /\ UNCHANGED <<inflight, entries, totalRequests, deduplicated, ckey, cent, cres>>
    /\ UNCHANGED nonInflightVars

\* What the case <-ctx.Done() does to the entry under m.mu: entry.watchers--
\* (cache_memory.go:141-143).
WaitCtxEntry(e) == [entries[e] EXCEPT !.watchers = @ - 1]

\* Mutant: a cancelled follower removes the entry from the table.
WaitCtxTable_Mut(key) == [inflight EXCEPT ![key] = NoEntry]

\* What the case <-ctx.Done() does to the table: nothing.
WaitCtxTable(key) == inflight

\* case <-ctx.Done(): lock, entry.watchers--, unlock, return ctx.Err()
\* (cache_memory.go:140-144).
WaitReturnCtx(p) ==
    /\ pc[p] = "wake_ctx"
    /\ entries' = [entries EXCEPT ![cent[p]] = WaitCtxEntry(cent[p])]
    /\ inflight' = WaitCtxTable(ckey[p])
    /\ cres' = [cres EXCEPT ![p] = CtxErr]
    /\ pc' = [pc EXCEPT ![p] = "returned"]
    /\ UNCHANGED <<totalRequests, deduplicated, ckey, cent, cctx>>
    /\ UNCHANGED nonInflightVars

\* Mutant: wait drops the error and returns nil.
WaitDoneResult_Mut(e) == "nil"

\* The value the case <-entry.done returns: entry.err (cache_memory.go:139).
WaitDoneResult(e) == entries[e].err

\* case <-entry.done: lock, entry.watchers--, unlock, return entry.err
\* (cache_memory.go:134-139).
WaitReturnDone(p) ==
    /\ pc[p] = "wake_done"
    /\ entries' = [entries EXCEPT ![cent[p]].watchers = @ - 1]
    /\ cres' = [cres EXCEPT ![p] = WaitDoneResult(cent[p])]
    /\ pc' = [pc EXCEPT ![p] = "returned"]
    /\ UNCHANGED <<inflight, totalRequests, deduplicated, ckey, cent, cctx>>
    /\ UNCHANGED nonInflightVars

\* The table after done: delete(m.inflight, key) (cache_memory.go:163).
DoneTable(key) == [inflight EXCEPT ![key] = NoEntry]

\* The first caller calls done(err), under m.mu (cache_memory.go:157-164):
\* entry.err = err, close(entry.done), delete(m.inflight, key).  Closing the
\* channel wakes every follower parked on it with the case <-entry.done.
Done(p, err) ==
    /\ pc[p] = "first"
    /\ LET e == cent[p]
           tbl == DoneTable(ckey[p])
           ce == [cent EXCEPT ![p] = NoEntry]
       IN /\ inflight' = tbl
          /\ cent' = ce
          /\ entries' = Collect([entries EXCEPT ![e].err = err, ![e].done = TRUE], tbl, ce)
          /\ pc' = [q \in Callers |->
                      IF q = p THEN "idle"
                      ELSE IF pc[q] = "waiting" /\ cent[q] = e THEN "wake_done"
                      ELSE pc[q]]
    /\ ckey' = [ckey EXCEPT ![p] = "none"]
    /\ UNCHANGED <<totalRequests, deduplicated, cctx, cres>>
    /\ UNCHANGED nonInflightVars

\* A follower whose wait returned drops its closure and is ready for its next
\* request.
Release(p) ==
    /\ pc[p] = "returned"
    /\ LET ce == [cent EXCEPT ![p] = NoEntry]
       IN /\ cent' = ce
          /\ entries' = Collect(entries, inflight, ce)
    /\ pc' = [pc EXCEPT ![p] = "idle"]
    /\ ckey' = [ckey EXCEPT ![p] = "none"]
    /\ cctx' = [cctx EXCEPT ![p] = "none"]
    /\ cres' = [cres EXCEPT ![p] = "none"]
    /\ UNCHANGED <<inflight, totalRequests, deduplicated>>
    /\ UNCHANGED nonInflightVars

\* The *InflightResult a first caller hands to the wrapped done function:
\* nil, a result with Cached = true or a result with Cached = false.
InflightResults == {"nil", "Cached", "NotCached"}

\* Mutant: the wrapped done reports success whatever the result says.
wrappedDone_Mut(result) == "nil"

\* wrappedDone (cache_manager.go:376-382): doneFn(ErrNotFound) when
\* result != nil && !result.Cached, doneFn(nil) otherwise.
wrappedDone(result) == IF result # "nil" /\ result # "Cached" THEN "ErrNotFound" ELSE "nil"

\* wrappedWait (cache_manager.go:363-369): (nil, err) when waitFn returned an
\* error, (&InflightResult{CacheKey: key, Cached: true}, nil) otherwise.
wrappedWait(err) ==
    IF err # "nil" THEN [result |-> "nil", err |-> err]
    ELSE [result |-> "Cached", err |-> "nil"]

\* What TryInflight returns (cache_manager.go:360-384): the follower gets
\* (false, wrappedWait, nil), the first caller (true, nil, wrappedDone).
TryInflightReturn(isFirst) ==
    IF ~isFirst THEN [isFirst |-> FALSE, wait |-> TRUE, done |-> FALSE]
    ELSE [isFirst |-> TRUE, wait |-> FALSE, done |-> TRUE]

\* CacheManager.TryInflight(key): cm.inflight.TryStart(key) and the wrapping of
\* the closure it returned.
TryInflight(p, key) == TryStart(p, key)

\* The first caller calls the wrapped done function with its result.
InflightDone(p, result) == Done(p, wrappedDone(result))

NextTryInflight ==
    \/ \E p \in Callers, k \in Keys : TryInflight(p, k)
    \/ \E p \in Callers, c \in {"background", "live", "cancelled"} : WaitSelect(p, c)
    \/ \E p \in Callers : CtxCancel(p)
    \/ \E p \in Callers : WaitReturnCtx(p)
    \/ \E p \in Callers : WaitReturnDone(p)
    \/ \E p \in Callers, r \in InflightResults : InflightDone(p, r)
    \/ \E p \in Callers : Release(p)

NextInflight ==
    \/ \E p \in Callers, k \in Keys : TryStart(p, k)
    \/ \E p \in Callers, c \in {"background", "live", "cancelled"} : WaitSelect(p, c)
    \/ \E p \in Callers : CtxCancel(p)
    \/ \E p \in Callers : WaitReturnCtx(p)
    \/ \E p \in Callers : WaitReturnDone(p)
    \/ \E p \in Callers, e \in Errs : Done(p, e)
    \/ \E p \in Callers : Release(p)

(***************************************************************************)
(*                     FileBlobStore and CacheManager                      *)
(***************************************************************************)

\* Bounds of the store models.
MaxOps == 3
MaxTime == 3

\* TTLs of DefaultCacheConfig in model time units (only their order matters:
\* the tag TTL of 24 h is shorter than the blob / digest TTL of 365 days).
ManifestTTL == 1
BlobTTL == 2

Workers == {"w1", "w2"}

\* Blob contents (byte strings).  A copy that fails midway leaves a proper
\* prefix of the content behind.
Contents == {<<1>>, <<1, 2>>}
Prefixes(c) == {SubSeq(c, 1, n) : n \in 0 .. Len(c) - 1}
NoFile == <<-1>>

\* "sha256:" + hex(sha256(c)): an injective function of the content (no
\* collisions); the leading 0 stands for the prefix "sha256:".
Sha256(c) == <<0>> \o c
EmptyDigest == <<>>
\* The digests callers claim: a well-formed one and the empty string.
Digests == {Sha256(<<1, 2>>), EmptyDigest}

\* hashKey, the hash of a key used for file names: an injective function
\* whose values differ from every SHA-256 hex string.
hashKey(key) == <<9>> \o key

\* strings.TrimPrefix(digest, "sha256:")
TrimPrefix(d) == IF d # <<>> /\ Head(d) = 0 THEN Tail(d) ELSE d

\* getPath: <dir>/<hash[:2]>/<hash[2:4]>/<hash>.  A digest carries 64 hex
\* characters; among the digests of the model only the empty one gives
\* len(hash) < 4.
getPath(d) ==
    LET hash == TrimPrefix(d)
    IN IF hash = <<>> THEN hashKey(d) ELSE hash

\* The final paths of the claimed digests and of the computed ones.
BlobPaths == {getPath(d) : d \in Digests \cup {Sha256(c) : c \in Contents}}

\* blobMeta (Digest, Size, ExpiresAt; MediaType is never set by Put, CachedAt
\* and FilePath are not read).  NoMeta: no such file / map entry.  BadMeta: a
\* sidecar that json.Unmarshal rejects (a truncated write).
NoMeta == [digest |-> EmptyDigest, size |-> -1, expiresAt |-> -1]
BadMeta == [digest |-> EmptyDigest, size |-> -2, expiresAt |-> -1]

\* Descriptor (Digest, Size, MediaType).
NoDesc == [digest |-> EmptyDigest, size |-> -1, mediaType |-> "none"]

\* The result of an operation: the error, and the descriptor size and the
\* bytes of the stream where the operation returns them; for Cleanup and
\* LoadIndex the count and (in size) the total size they return.
NoRet ==
    [err |-> "none", digest |-> EmptyDigest, size |-> -1, bytes |-> NoFile, count |-> 0]
RetErr(e) == [NoRet EXCEPT !.err = e]
RetDesc(m) == [NoRet EXCEPT !.err = "nil", !.digest = m.digest, !.size = m.size]

NoStored == [bytes |-> NoFile, expiresAt |-> -1]

IdleWork ==
    [pc |-> "idle", kind |-> "none", d |-> EmptyDigest, c |-> NoFile,
     meta |-> NoMeta, ret |-> NoRet, late |-> FALSE, maxSize |-> -1,
     desc |-> NoDesc, toDelete |-> {}, todo |-> {}, totalSize |-> 0, pass |-> 0,
     manifestCount |-> 0]

\* A goroutine can start an operation when it runs none: before its first call
\* and after a call has returned (its result stays visible until the next call).
Free(w) == work[w].pc \in {"idle", "done"}

\* CacheStatistics after construction (cache_manager.go:214).
ZeroStats ==
    [BlobCount |-> 0, TotalSize |-> 0, BlobHits |-> 0, BlobMisses |-> 0,
     ManifestCount |-> 0, ManifestHits |-> 0, ManifestMisses |-> 0]

InitBlob ==
    /\ bdata = [f \in BlobPaths |-> NoFile]
    /\ bmeta = [f \in BlobPaths |-> NoMeta]
    /\ btmp = [w \in Workers |-> NoFile]
    /\ bindex = [d \in Digests |-> NoMeta]
    /\ descCache = [d \in Digests |-> NoDesc]
    /\ stats = ZeroStats
    /\ work = [w \in Workers |-> IdleWork]
    /\ ops = 0
    /\ stored = [d \in Digests |-> NoStored]

\* ---- FileBlobStore.Put, called by CacheManager.PutBlob ----

\* MkdirAll, CreateTemp, io.Copy through the hasher, Flush, Close
\* (cache_storage.go:115-152).  On any failure the temp file is closed and
\* removed and Put returns the error.
PutWrite(w, d, c) ==
    /\ Free(w)
    /\ ops < MaxOps
    /\ ops' = ops + 1
    /\ \/ /\ btmp' = [btmp EXCEPT ![w] = c]
          /\ work' = [work EXCEPT ![w] = [IdleWork EXCEPT
                         !.pc = "put_verify", !.kind = "PutBlob", !.d = d, !.c = c]]
       \/ /\ btmp' = btmp
          /\ work' = [work EXCEPT ![w] = [IdleWork EXCEPT
                         !.pc = "done", !.kind = "PutBlob", !.d = d, !.c = c,
                         !.ret = RetErr("error")]]
    /\ UNCHANGED <<bdata, bmeta, bindex, descCache, stats, stored, now, cmLife, inflightVars, proxyVars, manifestVars, registryVars>>

\* Mutant: Put does not verify the digest.
DigestMismatch_Mut(d, c) == FALSE

\* digest != "" && digest != actualHash (cache_storage.go:155-156).
DigestMismatch(d, c) == d # EmptyDigest /\ d # Sha256(c)

\* The digest check (cache_storage.go:154-159): on mismatch the temp file is
\* removed and Put fails.
PutVerify(w) ==
    /\ work[w].pc = "put_verify"
    /\ IF DigestMismatch(work[w].d, btmp[w])
       THEN /\ btmp' = [btmp EXCEPT ![w] = NoFile]
            /\ work' = [work EXCEPT ![w].pc = "done", ![w].ret = RetErr("error")]
       ELSE /\ btmp' = btmp
            /\ work' = [work EXCEPT ![w].pc = "put_move"]
    /\ UNCHANGED <<bdata, bmeta, bindex, descCache, stats, ops, stored, now, cmLife, inflightVars, proxyVars, manifestVars, registryVars>>

\* What copyFile(src, dst) can leave at dst (cache_storage.go:491-507):
\* nothing new when os.Open(src) or os.Create(dst) fails, the whole content
\* when the copy succeeds, and a proper prefix of it when io.CopyBuffer fails
\* after os.Create has truncated dst.
CopyFileOutcomes(src, dst) ==
    {[err |-> FALSE, dst |-> src], [err |-> TRUE, dst |-> dst]}
        \cup {[err |-> TRUE, dst |-> x] : x \in Prefixes(src)}

\* os.Rename(tmp, path); when it fails, copyFile(tmp, path) and
\* os.Remove(tmp) (cache_storage.go:161-169).
PutMove(w) ==
    /\ work[w].pc = "put_move"
    /\ LET path == getPath(work[w].d) IN
       \/ \* the rename succeeds
          /\ bdata' = [bdata EXCEPT ![path] = btmp[w]]
          /\ work' = [work EXCEPT ![w].pc = "put_meta"]
       \/ \* the rename fails
          \E o \in CopyFileOutcomes(btmp[w], bdata[path]) :
             /\ bdata' = [bdata EXCEPT ![path] = o.dst]
             /\ IF o.err
                THEN work' = [work EXCEPT ![w].pc = "done", ![w].ret = RetErr("error")]
                ELSE work' = [work EXCEPT ![w].pc = "put_meta"]
    /\ btmp' = [btmp EXCEPT ![w] = NoFile]
    /\ UNCHANGED <<bmeta, bindex, descCache, stats, ops, stored, now, cmLife, inflightVars, proxyVars, manifestVars, registryVars>>

\* meta := &blobMeta{Digest: digest, Size: written, ExpiresAt: now.Add(s.ttl)}
\* (cache_storage.go:172-179).
PutBlobMeta(d, c) == [digest |-> d, size |-> Len(c), expiresAt |-> now + BlobTTL]

\* os.WriteFile(path+".meta", ...) (cache_storage.go:181-185): a failure is not
\* fatal; it leaves the sidecar as it was, or truncated.
PutMeta(w) ==
    /\ work[w].pc = "put_meta"
    /\ LET path == getPath(work[w].d)
           meta == PutBlobMeta(work[w].d, work[w].c)
       IN /\ \E m \in {meta, bmeta[path], BadMeta} :
                bmeta' = [bmeta EXCEPT ![path] = m]
          /\ work' = [work EXCEPT ![w].pc = "put_index", ![w].meta = meta]
    /\ UNCHANGED <<bdata, btmp, bindex, descCache, stats, ops, stored, now, cmLife, inflightVars, proxyVars, manifestVars, registryVars>>

\* s.index[digest] = meta; return nil (cache_storage.go:187-192).
PutIndex(w) ==
    /\ work[w].pc = "put_index"
    /\ bindex' = [bindex EXCEPT ![work[w].d] = work[w].meta]
    /\ stored' = [stored EXCEPT ![work[w].d] =
                     [bytes |-> work[w].c, expiresAt |-> work[w].meta.expiresAt]]
    /\ work' = [work EXCEPT ![w].pc = "putblob_finish", ![w].meta = NoMeta]
    /\ UNCHANGED <<bdata, bmeta, btmp, descCache, stats, ops, now, cmLife, inflightVars, proxyVars, manifestVars, registryVars>>

\* CacheManager.PutBlob after a successful Put (cache_manager.go:282-297):
\* descriptorCache.Set, BlobCount.Add(1), TotalSize.Add(size).  The size is
\* the one CacheManager.Put passes, len(entry.Data); no Content-Type header.
PutBlobFinish(w) ==
    /\ work[w].pc = "putblob_finish"
    /\ descCache' = [descCache EXCEPT ![work[w].d] =
                        [digest |-> work[w].d, size |-> Len(work[w].c), mediaType |-> ""]]
    /\ stats' = [stats EXCEPT !.BlobCount = @ + 1, !.TotalSize = @ + Len(work[w].c)]
    /\ work' = [work EXCEPT ![w].pc = "done", ![w].ret = RetErr("nil")]
    /\ UNCHANGED <<bdata, bmeta, btmp, bindex, ops, stored, now, cmLife, inflightVars, proxyVars, manifestVars, registryVars>>

\* ---- FileBlobStore.Stat and Get ----

\* Stat, the index hit: ok && time.Now().Before(meta.ExpiresAt)
\* (cache_storage.go:51-61).
StatIndexHit(d) == bindex[d] # NoMeta /\ now < bindex[d].expiresAt

\* History: the entry last put under d, if any, has expired.
Expired(d) == stored[d] # NoStored /\ now > stored[d].expiresAt

\* A worker calls Stat(digest) or Get(digest), which starts with Stat
\* (cache_storage.go:50-61, 98-102): the index lookup.
StatIndex(w, kind, d) ==
    /\ Free(w)
    /\ ops < MaxOps
    /\ ops' = ops + 1
    /\ LET me == [IdleWork EXCEPT !.kind = kind, !.d = d, !.late = Expired(d)] IN
       IF StatIndexHit(d)
       THEN IF kind = "Stat"
            THEN work' = [work EXCEPT ![w] =
                             [me EXCEPT !.pc = "done", !.ret = RetDesc(bindex[d])]]
            ELSE work' = [work EXCEPT ![w] =
                             [me EXCEPT !.pc = "get_open", !.ret = RetDesc(bindex[d])]]
       ELSE work' = [work EXCEPT ![w] = [me EXCEPT !.pc = "stat_disk"]]
    /\ UNCHANGED <<bdata, bmeta, btmp, bindex, descCache, stats, stored, now, cmLife, inflightVars, proxyVars, manifestVars, registryVars>>

\* time.Now().After(fileMeta.ExpiresAt) (cache_storage.go:79).
SidecarExpired(m) == now > m.expiresAt

\* Stat, the disk path (cache_storage.go:63-95): read the sidecar; a missing
\* one is ErrNotFound; one that does not parse, or an expired one, is removed
\* together with the data file; otherwise the index is refreshed from it.
StatDisk(w) ==
    /\ work[w].pc = "stat_disk"
    /\ LET path == getPath(work[w].d)
           fileMeta == bmeta[path]
       IN IF fileMeta = NoMeta
          THEN /\ work' = [work EXCEPT ![w].pc = "done", ![w].ret = RetErr("ErrNotFound")]
               /\ UNCHANGED <<bdata, bmeta, bindex>>
          ELSE IF fileMeta = BadMeta \/ SidecarExpired(fileMeta)
          THEN /\ bdata' = [bdata EXCEPT ![path] = NoFile]
               /\ bmeta' = [bmeta EXCEPT ![path] = NoMeta]
               /\ work' = [work EXCEPT ![w].pc = "done", ![w].ret =
                              RetErr(IF fileMeta = BadMeta THEN "ErrNotFound" ELSE "ErrExpired")]
               /\ UNCHANGED bindex
          ELSE /\ bindex' = [bindex EXCEPT ![work[w].d] = fileMeta]
               /\ work' = [work EXCEPT
                              ![w].pc = IF work[w].kind = "Stat" THEN "done" ELSE "get_open",
                              ![w].ret = RetDesc(fileMeta)]
               /\ UNCHANGED <<bdata, bmeta>>
    /\ UNCHANGED <<btmp, descCache, stats, ops, stored, now, cmLife, inflightVars, proxyVars, manifestVars, registryVars>>

\* Get after a successful Stat: os.Open(path) (cache_storage.go:104-110).  The
\* stream yields the bytes of the file.
GetOpen(w) ==
    /\ work[w].pc = "get_open"
    /\ LET file == bdata[getPath(work[w].d)] IN
       IF file = NoFile
       THEN work' = [work EXCEPT ![w].pc = "done", ![w].ret = RetErr("ErrNotFound")]
       ELSE work' = [work EXCEPT ![w].pc = "done", ![w].ret.bytes = file]
    /\ UNCHANGED <<bdata, bmeta, btmp, bindex, descCache, stats, ops, stored, now, cmLife, inflightVars, proxyVars, manifestVars, registryVars>>

\* ---- FileBlobStore.Delete ----

\* delete(s.index, digest) under the lock (cache_storage.go:197-199).
DeleteIndex(w, d) ==
    /\ Free(w)
    /\ ops < MaxOps
    /\ ops' = ops + 1
    /\ bindex' = [bindex EXCEPT ![d] = NoMeta]
    /\ stored' = [stored EXCEPT ![d] = NoStored]
    /\ work' = [work EXCEPT ![w] =
                    [IdleWork EXCEPT !.pc = "delete_files", !.kind = "Delete", !.d = d]]
    /\ UNCHANGED <<bdata, bmeta, btmp, descCache, stats, now, cmLife, inflightVars, proxyVars, manifestVars, registryVars>>

\* os.Remove(path); os.Remove(path + ".meta") (cache_storage.go:201-205).
DeleteFiles(w) ==
    /\ work[w].pc = "delete_files"
    /\ LET path == getPath(work[w].d) IN
       /\ bdata' = [bdata EXCEPT ![path] = NoFile]
       /\ bmeta' = [bmeta EXCEPT ![path] = NoMeta]
    /\ work' = [work EXCEPT ![w].pc = "done", ![w].ret = RetErr("nil")]
    /\ UNCHANGED <<btmp, bindex, descCache, stats, ops, stored, now, cmLife, inflightVars, proxyVars, manifestVars, registryVars>>

\* Delete among other goroutines: its two removals are two steps.
\* os.Remove(path) (cache_storage.go:202).
RemoveData(w) ==
    /\ work[w].pc = "delete_files"
    /\ bdata' = [bdata EXCEPT ![getPath(work[w].d)] = NoFile]
    /\ work' = [work EXCEPT ![w].pc = "delete_meta"]
    /\ UNCHANGED <<bmeta, btmp, bindex, descCache, stats, ops, stored, now, cmLife, inflightVars, proxyVars, manifestVars, registryVars>>

\* os.Remove(path + ".meta"); return nil (cache_storage.go:203-205).
RemoveMeta(w) ==
    /\ work[w].pc = "delete_meta"
    /\ bmeta' = [bmeta EXCEPT ![getPath(work[w].d)] = NoMeta]
    /\ work' = [work EXCEPT ![w].pc = "done", ![w].ret = RetErr("nil")]
    /\ UNCHANGED <<bdata, btmp, bindex, descCache, stats, ops, stored, now, cmLife, inflightVars, proxyVars, manifestVars, registryVars>>

\* ---- FileBlobStore.Cleanup and LoadIndex ----

\* The sum of meta.Size over the digests of S.
RECURSIVE SumSizes(_, _)
SumSizes(S, index) ==
    IF S = {} THEN 0
    ELSE LET d == CHOOSE x \in S : TRUE
         IN index[d].size + SumSizes(S \ {d}, index)

\* Mutant: the size limit evicts nothing.
overLimit_Mut(totalSize, maxSize) == FALSE
\* if totalSize > maxSize, and the negation of the loop's
\* `if totalSize <= maxSize { break }` (cache_storage.go:229, 233-235).
overLimit(totalSize, maxSize) == totalSize > maxSize

\* The second loop of Cleanup (cache_storage.go:231-240): the entries of the
\* index are visited in the order of the map, which is any order, and each is
\* put on the list until totalSize <= maxSize.  The sets of digests the loop
\* can put on the list.
RECURSIVE Evictions(_, _, _, _)
Evictions(S, index, totalSize, maxSize) ==
    IF ~overLimit(totalSize, maxSize) \/ S = {} THEN {{}}
    ELSE UNION {{{d} \cup E :
                    E \in Evictions(S \ {d}, index, totalSize - index[d].size, maxSize)} :
                d \in S}

\* FileBlobStore.Cleanup(maxSize) (cache_storage.go:209-249), with no other
\* call running: the expired entries of the index are deleted with Delete
\* (index entry, data file, sidecar); when the sizes of the others exceed
\* maxSize, entries are evicted the same way; it returns len(toDelete).
Cleanup(w, maxSize) ==
    /\ \A v \in Workers : Free(v)
    /\ ops < MaxOps
    /\ ops' = ops + 1
    /\ LET indexed == {d \in Digests : bindex[d] # NoMeta}
           expired == {d \in indexed : now > bindex[d].expiresAt}
           totalSize == SumSizes(indexed \ expired, bindex)
       IN \E evicted \in Evictions(indexed \ expired, bindex, totalSize, maxSize) :
            LET toDelete == expired \cup evicted
                paths == {getPath(d) : d \in toDelete}
            IN /\ bindex' = [d \in Digests |-> IF d \in toDelete THEN NoMeta ELSE bindex[d]]
               /\ bdata' = [f \in BlobPaths |-> IF f \in paths THEN NoFile ELSE bdata[f]]
               /\ bmeta' = [f \in BlobPaths |-> IF f \in paths THEN NoMeta ELSE bmeta[f]]
               /\ stored' = [d \in Digests |-> IF d \in toDelete THEN NoStored ELSE stored[d]]
               /\ work' = [work EXCEPT ![w] =
                              [IdleWork EXCEPT
                                  !.pc = "done", !.kind = "Cleanup", !.maxSize = maxSize,
                                  !.ret = [NoRet EXCEPT
                                              !.err = "nil",
                                              !.count = Cardinality(expired)
                                                          + Cardinality(evicted)]]]
    /\ UNCHANGED <<btmp, descCache, stats, now, cmLife, inflightVars, proxyVars, manifestVars, registryVars>>

\* Cleanup among other goroutines.  The first loop (cache_storage.go:214-222),
\* under the read lock: the expired entries are listed and the sizes of the
\* others are summed.
CleanupScan(w, maxSize) ==
    /\ Free(w)
    /\ ops < MaxOps
    /\ ops' = ops + 1
    /\ LET indexed == {d \in Digests : bindex[d] # NoMeta}
           expired == {d \in indexed : now > bindex[d].expiresAt}
       IN work' = [work EXCEPT ![w] =
                      [IdleWork EXCEPT
                          !.pc = "cleanup_delete", !.kind = "Cleanup", !.maxSize = maxSize,
                          !.toDelete = expired, !.todo = expired, !.pass = 1,
                          !.totalSize = SumSizes(indexed \ expired, bindex),
                          !.ret = [NoRet EXCEPT !.count = Cardinality(expired)]]]
    /\ UNCHANGED <<bdata, bmeta, btmp, bindex, descCache, stats, stored, now, cmLife, inflightVars, proxyVars, manifestVars, registryVars>>

\* s.Delete(ctx, digest) for the next digest of the list (cache_storage.go:
\* 225-227, 243-245): the index entry first (cache_storage.go:197-199).
CleanupDelete(w) ==
    /\ work[w].pc = "cleanup_delete"
    /\ \E d \in work[w].todo :
          /\ bindex' = [bindex EXCEPT ![d] = NoMeta]
          /\ stored' = [stored EXCEPT ![d] = NoStored]
          /\ work' = [work EXCEPT ![w].pc = "cleanup_data", ![w].d = d,
                                  ![w].todo = @ \ {d}]
    /\ UNCHANGED <<bdata, bmeta, btmp, descCache, stats, ops, now, cmLife, inflightVars, proxyVars, manifestVars, registryVars>>

\* os.Remove(path) of that Delete.
CleanupData(w) ==
    /\ work[w].pc = "cleanup_data"
    /\ bdata' = [bdata EXCEPT ![getPath(work[w].d)] = NoFile]
    /\ work' = [work EXCEPT ![w].pc = "cleanup_meta"]
    /\ UNCHANGED <<bmeta, btmp, bindex, descCache, stats, ops, stored, now, cmLife, inflightVars, proxyVars, manifestVars, registryVars>>

\* os.Remove(path + ".meta") of that Delete.
CleanupMeta(w) ==
    /\ work[w].pc = "cleanup_meta"
    /\ bmeta' = [bmeta EXCEPT ![getPath(work[w].d)] = NoMeta]
    /\ work' = [work EXCEPT ![w].pc = "cleanup_delete"]
    /\ UNCHANGED <<bdata, btmp, bindex, descCache, stats, ops, stored, now, cmLife, inflightVars, proxyVars, manifestVars, registryVars>>

\* The list is done.  After the first pass, when totalSize > maxSize, the
\* second loop (cache_storage.go:229-241) adds entries of the index as it is
\* now to the list, and the whole list is deleted again; otherwise Cleanup
\* returns len(toDelete) (cache_storage.go:248), which ret.count holds.
CleanupEvict(w) ==
    /\ work[w].pc = "cleanup_delete"
    /\ work[w].todo = {}
    /\ IF work[w].pass = 1 /\ overLimit(work[w].totalSize, work[w].maxSize)
       THEN \E evicted \in Evictions({d \in Digests : bindex[d] # NoMeta}, bindex,
                                     work[w].totalSize, work[w].maxSize) :
               work' = [work EXCEPT
                           ![w].pass = 2,
                           ![w].toDelete = @ \cup evicted,
                           ![w].todo = work[w].toDelete \cup evicted,
                           ![w].ret.count = @ + Cardinality(evicted)]
       ELSE work' = [work EXCEPT ![w].pc = "done", ![w].ret.err = "nil"]
    /\ UNCHANGED <<bdata, bmeta, btmp, bindex, descCache, stats, ops, stored, now, cmLife, inflightVars, proxyVars, manifestVars, registryVars>>

\* A sidecar that json.Unmarshal accepts.
Parses(m) == m # NoMeta /\ m # BadMeta

\* The sidecars LoadIndex puts into the index under digest d: those that
\* parse, are not expired and name d.
Loadable(d) ==
    {f \in BlobPaths : Parses(bmeta[f]) /\ ~(now > bmeta[f].expiresAt) /\ bmeta[f].digest = d}

\* FileBlobStore.LoadIndex (cache_storage.go:252-293) on the store
\* NewFileBlobStore makes over the directory when the process starts
\* (cache_storage.go:39-47: an empty index), with no other call running: every
\* sidecar that parses is removed with its data file when it has expired and
\* is put into the index under its Digest otherwise; a sidecar that does not
\* parse is left alone.  It returns the count and the total size.
LoadIndex(w) ==
    /\ \A v \in Workers : Free(v)
    /\ ops < MaxOps
    /\ ops' = ops + 1
    /\ LET gone == {f \in BlobPaths : Parses(bmeta[f]) /\ now > bmeta[f].expiresAt}
           loaded == {f \in BlobPaths : Parses(bmeta[f]) /\ ~(now > bmeta[f].expiresAt)}
           index == [d \in Digests |->
                        IF Loadable(d) # {} THEN bmeta[CHOOSE f \in Loadable(d) : TRUE]
                        ELSE NoMeta]
       IN /\ bindex' = index
          /\ bdata' = [f \in BlobPaths |-> IF f \in gone THEN NoFile ELSE bdata[f]]
          /\ bmeta' = [f \in BlobPaths |-> IF f \in gone THEN NoMeta ELSE bmeta[f]]
          /\ work' = [work EXCEPT ![w] =
                         [IdleWork EXCEPT
                             !.pc = "done", !.kind = "LoadIndex",
                             !.ret = [NoRet EXCEPT
                                         !.err = "nil",
                                         !.count = Cardinality(loaded),
                                         !.size = SumSizes(loaded, bmeta)]]]
    /\ UNCHANGED <<btmp, descCache, stats, stored, now, cmLife, inflightVars, proxyVars, manifestVars, registryVars>>

\* ---- CacheManager.GetBlob ----

\* The directory and the index of the blob store, as one value.
Store(index, data, meta) == [index |-> index, data |-> data, meta |-> meta]

\* FileBlobStore.Stat(digest) on store st (cache_storage.go:50-95): the error,
\* the descriptor, and the store it leaves.
StatOf(st, d) ==
    LET path == getPath(d)
        fileMeta == st.meta[path]
        removed == [st EXCEPT !.data[path] = NoFile, !.meta[path] = NoMeta]
    IN IF st.index[d] # NoMeta /\ now < st.index[d].expiresAt
       THEN [err |-> "nil", meta |-> st.index[d], st |-> st]
       ELSE IF fileMeta = NoMeta
       THEN [err |-> "ErrNotFound", meta |-> NoMeta, st |-> st]
       ELSE IF fileMeta = BadMeta
       THEN [err |-> "ErrNotFound", meta |-> NoMeta, st |-> removed]
       ELSE IF now > fileMeta.expiresAt
       THEN [err |-> "ErrExpired", meta |-> NoMeta, st |-> removed]
       ELSE [err |-> "nil", meta |-> fileMeta, st |-> [st EXCEPT !.index[d] = fileMeta]]

\* Mutant: os.Open never fails.
openFails_Mut(data, path) == FALSE
\* os.Open(path) returns an error (cache_storage.go:105-108): there is no
\* such file.
openFails(data, path) == data[path] = NoFile

\* FileBlobStore.Get(digest) on store st (cache_storage.go:98-111): the error,
\* the bytes the reader yields, and the store it leaves.
GetOf(st, d) ==
    LET s == StatOf(st, d)
    IN IF s.err # "nil" THEN [err |-> s.err, bytes |-> NoFile, st |-> s.st]
       ELSE IF openFails(s.st.data, getPath(d))
       THEN [err |-> "ErrNotFound", bytes |-> NoFile, st |-> s.st]
       ELSE [err |-> "nil", bytes |-> s.st.data[getPath(d)], st |-> s.st]

\* CacheManager.GetBlob(ctx, cacheKey, digest) (cache_manager.go:241-273),
\* which GetBlobReader calls (cache_manager.go:442-455), with no other call
\* running: the descriptor cache, then the store.
GetBlob(w, d) ==
    /\ \A v \in Workers : Free(v)
    /\ ops < MaxOps
    /\ ops' = ops + 1
    /\ LET st0 == Store(bindex, bdata, bmeta)
           ok == descCache[d] # NoDesc
           g1 == GetOf(st0, d)
           byDesc == ok /\ g1.err = "nil"
           st1 == IF ok THEN g1.st ELSE st0
           s2 == StatOf(st1, d)
           g2 == GetOf(s2.st, d)
           byStore == ~byDesc /\ s2.err = "nil" /\ g2.err = "nil"
           st2 == IF s2.err = "nil" THEN g2.st ELSE s2.st
           final == IF byDesc THEN g1.st ELSE st2
           desc == [digest |-> s2.meta.digest, size |-> s2.meta.size, mediaType |-> ""]
           me == [IdleWork EXCEPT !.pc = "done", !.kind = "GetBlob", !.d = d,
                                  !.desc = descCache[d]]
       IN /\ bindex' = final.index
          /\ bdata' = final.data
          /\ bmeta' = final.meta
          /\ descCache' = [descCache EXCEPT ![d] =
                              IF byDesc THEN @ ELSE IF byStore THEN desc ELSE NoDesc]
          /\ stats' = IF byDesc \/ byStore
                      THEN [stats EXCEPT !.BlobHits = @ + 1]
                      ELSE [stats EXCEPT !.BlobMisses = @ + 1]
          /\ work' = [work EXCEPT ![w] =
                         IF byDesc
                         THEN [me EXCEPT !.ret = [NoRet EXCEPT
                                  !.err = "nil", !.digest = descCache[d].digest,
                                  !.size = descCache[d].size, !.bytes = g1.bytes]]
                         ELSE IF byStore
                         THEN [me EXCEPT !.ret = [NoRet EXCEPT
                                  !.err = "nil", !.digest = desc.digest,
                                  !.size = desc.size, !.bytes = g2.bytes]]
                         ELSE [me EXCEPT !.ret = RetErr("ErrNotFound")]]
    /\ UNCHANGED <<btmp, stored, now, cmLife, inflightVars, proxyVars, manifestVars, registryVars>>

\* Time passes.
Tick ==
    /\ now < MaxTime
    /\ now' = now + 1
    /\ UNCHANGED <<cmLife, blobVars, inflightVars, proxyVars, manifestVars, registryVars>>

\* The steps of the goroutines W calling the blob store, and of the clock.
NextBlob(W) ==
    \/ \E w \in W, d \in Digests, c \in Contents : PutWrite(w, d, c)
    \/ \E w \in W : PutVerify(w)
    \/ \E w \in W : PutMove(w)
    \/ \E w \in W : PutMeta(w)
    \/ \E w \in W : PutIndex(w)
    \/ \E w \in W : PutBlobFinish(w)
    \/ \E w \in W, k \in {"Stat", "Get"}, d \in Digests : StatIndex(w, k, d)
    \/ \E w \in W : StatDisk(w)
    \/ \E w \in W : GetOpen(w)
    \/ \E w \in W, d \in Digests : DeleteIndex(w, d)
    \/ \E w \in W : DeleteFiles(w)
    \/ Tick

(***************************************************************************)
(*          FileManifestStore and the manifests of CacheManager            *)
(***************************************************************************)

\* One repository and two references, a tag and a digest; a string is the
\* sequence of its pieces, "/" a piece of its own.
Repo == <<"library", "/", "nginx">>
TagRef == <<"latest">>
DigestRef == <<"sha256:", "abc">>
References == {TagRef, DigestRef}

\* strings.HasPrefix(reference, "sha256:")
HasPrefix(ref, prefix) == Len(ref) > 0 /\ ref[1] = prefix

\* getKey: repo + "/" + reference.
getKey(repo, ref) == repo \o <<"/">> \o ref

\* FileManifestStore.getPath: <dir>/<hash[:2]>/<hash[2:4]>/<hash>.json.
getManifestPath(repo, ref) == hashKey(getKey(repo, ref)) \o <<".json">>

ManifestPaths == {getManifestPath(Repo, ref) : ref \in References}

\* Header values: "json" stands for a string of valid UTF-8, "bad" for one
\* with a byte that is not valid UTF-8 (in a header, any byte above 0x7F that
\* the upstream sent in Latin-1).
HeaderVals == {"json", "bad"}

\* The header maps callers pass: none, or a Content-Type.  A map is the set of
\* its (name, value) pairs.
HeaderMaps == {{}} \cup {{<<"Content-Type", v>>} : v \in HeaderVals}

\* if ct, ok := headers["Content-Type"]; ok && len(ct) > 0 { mediaType = ct[0] }
ContentType(headers) ==
    IF \E h \in headers : h[1] = "Content-Type"
    THEN (CHOOSE h \in headers : h[1] = "Content-Type")[2]
    ELSE ""

\* CacheEntry (cache_manager.go:33-41); BodyPath is never set.  A time.Time is
\* the instant it denotes.
NoCacheEntry ==
    [digest |-> EmptyDigest, size |-> -1, mediaType |-> "", headers |-> {},
     status |-> 0, data |-> <<>>, cachedAt |-> -1, expiresAt |-> -1]

\* encoding/json writes a Go string as a JSON string, with every byte that is
\* not valid UTF-8 replaced by U+FFFD.
JSONString(s) == IF s = "bad" THEN "U+FFFD" ELSE s

\* []byte is written as a base64 string.
Base64(data) == <<64>> \o data
Base64Decode(text) == Tail(text)

\* json.Marshal(entry): the document, field by field.  `data` has omitempty:
\* the field is left out when len(Data) = 0.  A time is written as RFC 3339
\* with nanoseconds, which keeps the instant.
Marshal(e) ==
    [descriptor |-> [digest |-> e.digest, size |-> e.size,
                     mediaType |-> JSONString(e.mediaType)],
     headers |-> {<<JSONString(h[1]), JSONString(h[2])>> : h \in e.headers},
     statusCode |-> e.status,
     hasData |-> e.data # <<>>,
     data |-> IF e.data # <<>> THEN Base64(e.data) ELSE <<>>,
     cachedAt |-> e.cachedAt,
     expiresAt |-> e.expiresAt]

\* json.Unmarshal(data, entry) into a zero CacheEntry.
Unmarshal(doc) ==
    [digest |-> doc.descriptor.digest, size |-> doc.descriptor.size,
     mediaType |-> doc.descriptor.mediaType,
     headers |-> doc.headers,
     status |-> doc.statusCode,
     data |-> IF doc.hasData THEN Base64Decode(doc.data) ELSE <<>>,
     cachedAt |-> doc.cachedAt,
     expiresAt |-> doc.expiresAt]

\* A file of the manifest directory: absent, a JSON document, or bytes that
\* json.Unmarshal rejects (a truncated write).
NoMFile == [state |-> "absent", doc |-> Marshal(NoCacheEntry)]
BadMFile == [state |-> "truncated", doc |-> Marshal(NoCacheEntry)]
JSONFile(e) == [state |-> "json", doc |-> Marshal(e)]

NoMRes == [kind |-> "none", ref |-> <<>>, err |-> "none", entry |-> NoCacheEntry]
NoMStored == [via |-> "none", entry |-> NoCacheEntry, data |-> <<>>]

InitManifest ==
    /\ mfile = [f \in ManifestPaths |-> NoMFile]
    /\ mindex = [ref \in References |-> NoCacheEntry]
    /\ mindexByPath = [p \in ManifestPaths |-> NoCacheEntry]
    /\ mres = NoMRes
    /\ mstored = [ref \in References |-> NoMStored]

\* What FileManifestStore.Put can do to the file (cache_storage.go:380-392):
\* MkdirAll or the opening of the file fails and the file stays as it was,
\* os.WriteFile fails after truncating it, or the document is written.
ManifestPutOutcomes(path, entry) ==
    {[err |-> "nil", file |-> JSONFile(entry)],
     [err |-> "error", file |-> mfile[path]],
     [err |-> "error", file |-> BadMFile]}

\* The expiry CacheManager.PutManifest gives an entry (cache_manager.go:335-341).
PutManifestExpiry(ref) ==
    IF HasPrefix(ref, "sha256:") THEN now + BlobTTL ELSE now + ManifestTTL

\* The entry CacheManager.PutManifest builds (cache_manager.go:314-332): Data
\* is not among the fields it sets.
PutManifestEntry(ref, data, headers, status) ==
    [digest |-> Sha256(data), size |-> Len(data), mediaType |-> ContentType(headers),
     headers |-> headers, status |-> status, data |-> <<>>,
     cachedAt |-> now, expiresAt |-> PutManifestExpiry(ref)]

\* CacheManager.PutManifest(repo, reference, data, headers, statusCode)
\* (cache_manager.go:313-351), with FileManifestStore.Put inside it.
PutManifest(ref, data, headers) ==
    /\ ops < MaxOps
    /\ ops' = ops + 1
    /\ LET entry == PutManifestEntry(ref, data, headers, 200)
           path == getManifestPath(Repo, ref)
       IN \E o \in ManifestPutOutcomes(path, entry) :
            /\ mfile' = [mfile EXCEPT ![path] = o.file]
            /\ mres' = [kind |-> "PutManifest", ref |-> ref, err |-> o.err,
                        entry |-> NoCacheEntry]
            /\ IF o.err = "nil"
               THEN /\ mindex' = [mindex EXCEPT ![ref] = entry]
                    /\ stats' = [stats EXCEPT !.ManifestCount = @ + 1,
                                              !.TotalSize = @ + Len(data)]
                    /\ mstored' = [mstored EXCEPT ![ref] =
                                     [via |-> "PutManifest", entry |-> entry, data |-> data]]
               ELSE UNCHANGED <<mindex, stats, mstored>>
    /\ UNCHANGED <<bdata, bmeta, btmp, bindex, descCache, work, stored, mindexByPath, now, cmLife, inflightVars, proxyVars, registryVars>>

\* An entry a caller of the unified Put hands over: a body, headers, stamped
\* now, with an expiry of the caller's choosing.
CallerEntry(c, h, ttl) ==
    [digest |-> Sha256(c), size |-> Len(c), mediaType |-> ContentType(h),
     headers |-> h, status |-> 200, data |-> c,
     cachedAt |-> now, expiresAt |-> now + ttl]

\* The bodies and the lifetimes of those entries.
CallerBodies == {<<>>, <<1>>}
CallerTTLs == {ManifestTTL, BlobTTL}

\* CacheManager.Put(cacheKey, entry) for a manifest key (cache_manager.go:460-467):
\* FileManifestStore.Put(repo, reference, entry) (cache_storage.go:376-400).
Put(ref, entry) ==
    /\ ops < MaxOps
    /\ ops' = ops + 1
    /\ LET path == getManifestPath(Repo, ref)
       IN \E o \in ManifestPutOutcomes(path, entry) :
            /\ mfile' = [mfile EXCEPT ![path] = o.file]
            /\ mres' = [kind |-> "Put", ref |-> ref, err |-> o.err,
                        entry |-> NoCacheEntry]
            /\ IF o.err = "nil"
               THEN /\ mindex' = [mindex EXCEPT ![ref] = entry]
                    /\ mstored' = [mstored EXCEPT ![ref] =
                                     [via |-> "Put", entry |-> entry, data |-> entry.data]]
               ELSE UNCHANGED <<mindex, mstored>>
    /\ UNCHANGED <<bdata, bmeta, btmp, bindex, descCache, stats, work, stored, mindexByPath, now, cmLife, inflightVars, proxyVars, registryVars>>

\* FileManifestStore.Get (cache_storage.go:331-373): what it returns and what
\* it leaves in the index and in the file.
ManifestGet(ref) ==
    LET path == getManifestPath(Repo, ref)
        file == mfile[path]
        \* the index after `delete(s.index, key)` of an expired entry
        index == [mindex EXCEPT ![ref] = NoCacheEntry]
        entry == Unmarshal(file.doc)
    IN IF mindex[ref] # NoCacheEntry /\ now < mindex[ref].expiresAt
       THEN [err |-> "nil", entry |-> mindex[ref], index |-> mindex, file |-> file]
       ELSE IF file.state = "absent"
       THEN [err |-> "ErrNotFound", entry |-> NoCacheEntry, index |-> index, file |-> file]
       ELSE IF file.state = "truncated"
       THEN [err |-> "ErrNotFound", entry |-> NoCacheEntry, index |-> index, file |-> NoMFile]
       ELSE IF now > entry.expiresAt
       THEN [err |-> "ErrExpired", entry |-> NoCacheEntry, index |-> index, file |-> NoMFile]
       ELSE [err |-> "nil", entry |-> entry,
             index |-> [mindex EXCEPT ![ref] = entry], file |-> file]

\* CacheManager.GetManifest(repo, reference) (cache_manager.go:301-310), which
\* CacheManager.Get calls for a manifest key (cache_manager.go:400-404).
GetManifest(ref) ==
    /\ ops < MaxOps
    /\ ops' = ops + 1
    /\ LET r == ManifestGet(ref) IN
         /\ mindex' = r.index
         /\ mfile' = [mfile EXCEPT ![getManifestPath(Repo, ref)] = r.file]
         /\ mres' = [kind |-> "GetManifest", ref |-> ref, err |-> r.err, entry |-> r.entry]
         /\ IF r.err = "nil"
            THEN stats' = [stats EXCEPT !.ManifestHits = @ + 1]
            ELSE stats' = [stats EXCEPT !.ManifestMisses = @ + 1]
    /\ UNCHANGED <<bdata, bmeta, btmp, bindex, descCache, work, stored, mstored, mindexByPath, now, cmLife, inflightVars, proxyVars, registryVars>>

\* FileManifestStore.Delete (cache_storage.go:403-412).
ManifestDelete(ref) ==
    /\ ops < MaxOps
    /\ ops' = ops + 1
    /\ mindex' = [mindex EXCEPT ![ref] = NoCacheEntry]
    /\ mfile' = [mfile EXCEPT ![getManifestPath(Repo, ref)] = NoMFile]
    /\ mres' = [kind |-> "Delete", ref |-> ref,
                err |-> IF mfile[getManifestPath(Repo, ref)] = NoMFile THEN "error" ELSE "nil",
                entry |-> NoCacheEntry]
    /\ mstored' = [mstored EXCEPT ![ref] = NoMStored]
    /\ UNCHANGED <<bdata, bmeta, btmp, bindex, descCache, stats, work, stored, mindexByPath, now, cmLife, inflightVars, proxyVars, registryVars>>

\* The process is started again on the same directory while no call is running:
\* NewCacheManager (cache_manager.go:188-226) makes new, empty indexes, a new
\* descriptor cache and zero statistics; the files stay, and no call of the
\* new process has returned yet.
Restart ==
    /\ ops < MaxOps
    /\ ops' = ops + 1
    /\ \A w \in Workers : Free(w)
    /\ mindex' = [ref \in References |-> NoCacheEntry]
    /\ mindexByPath' = [p \in ManifestPaths |-> NoCacheEntry]
    /\ bindex' = [d \in Digests |-> NoMeta]
    /\ descCache' = [d \in Digests |-> NoDesc]
    /\ stats' = ZeroStats
    /\ mres' = NoMRes
    /\ work' = [w \in Workers |-> IdleWork]
    /\ UNCHANGED <<bdata, bmeta, btmp, stored, mfile, mstored, now, cmLife, inflightVars, proxyVars, registryVars>>

NextManifest ==
    \/ \E ref \in References, data \in Contents, headers \in HeaderMaps :
          PutManifest(ref, data, headers)
    \/ \E ref \in References, c \in CallerBodies, h \in HeaderMaps, ttl \in CallerTTLs :
          Put(ref, CallerEntry(c, h, ttl))
    \/ \E ref \in References : GetManifest(ref)
    \/ \E ref \in References : ManifestDelete(ref)
    \/ Restart
    \/ Tick

\* The size limits passed to Cleanup.
MaxSizes == {0, 1, 2, 3}

\* The blob store filled by Put and maintained by Cleanup and LoadIndex.
NextBlobUpkeep ==
    \/ \E d \in Digests, c \in Contents : PutWrite("w1", d, c)
    \/ PutVerify("w1")
    \/ PutMove("w1")
    \/ PutMeta("w1")
    \/ PutIndex("w1")
    \/ PutBlobFinish("w1")
    \/ \E maxSize \in MaxSizes : Cleanup("w1", maxSize)
    \/ LoadIndex("w1")
    \/ Tick

\* The digest and the content the racing goroutines work on.
RaceDigest == Sha256(<<1, 2>>)
RaceContent == <<1, 2>>

\* The blobs of CacheManager: put by one goroutine while another deletes, read
\* with GetBlob, swept by the blob store's Cleanup, which leaves the
\* descriptor cache alone, and found on disk by a process started again.
NextGetBlob ==
    \/ \E c \in Contents : PutWrite("w1", RaceDigest, c)
    \/ PutVerify("w1")
    \/ PutMove("w1")
    \/ PutMeta("w1")
    \/ PutIndex("w1")
    \/ PutBlobFinish("w1")
    \/ DeleteIndex("w2", RaceDigest)
    \/ RemoveData("w2")
    \/ RemoveMeta("w2")
    \/ \E d \in Digests : GetBlob("w1", d)
    \/ \E maxSize \in MaxSizes : Cleanup("w1", maxSize)
    \/ Restart
    \/ Tick

\* Two goroutines that put, stat, delete and sweep the same digest at the same
\* time.
NextBlobRace ==
    \/ \E w \in Workers : PutWrite(w, RaceDigest, RaceContent)
    \/ \E w \in Workers : PutVerify(w)
    \/ \E w \in Workers : PutMove(w)
    \/ \E w \in Workers : PutMeta(w)
    \/ \E w \in Workers : PutIndex(w)
    \/ \E w \in Workers : PutBlobFinish(w)
    \/ \E w \in Workers : StatIndex(w, "Stat", RaceDigest)
    \/ \E w \in Workers : StatDisk(w)
    \/ \E w \in Workers : DeleteIndex(w, RaceDigest)
    \/ \E w \in Workers : RemoveData(w)
    \/ \E w \in Workers : RemoveMeta(w)
    \/ \E w \in Workers, maxSize \in MaxSizes : CleanupScan(w, maxSize)
    \/ \E w \in Workers : CleanupDelete(w)
    \/ \E w \in Workers : CleanupData(w)
    \/ \E w \in Workers : CleanupMeta(w)
    \/ \E w \in Workers : CleanupEvict(w)
    \/ Tick

\* FileManifestStore.Cleanup (cache_storage.go:415-434): the expired entries
\* are deleted from the index; it returns their number.
ManifestCleanup ==
    /\ ops < MaxOps
    /\ ops' = ops + 1
    /\ LET toDelete == {ref \in References :
                           mindex[ref] # NoCacheEntry /\ now > mindex[ref].expiresAt}
           byPath == {p \in ManifestPaths :
                         mindexByPath[p] # NoCacheEntry /\ now > mindexByPath[p].expiresAt}
       IN /\ mindex' = [ref \in References |->
                           IF ref \in toDelete THEN NoCacheEntry ELSE mindex[ref]]
          /\ mindexByPath' = [p \in ManifestPaths |->
                                 IF p \in byPath THEN NoCacheEntry ELSE mindexByPath[p]]
          /\ mres' = [kind |-> "Cleanup", ref |-> <<>>, err |-> "nil",
                      entry |-> NoCacheEntry,
                      count |-> Cardinality(toDelete) + Cardinality(byPath)]
    /\ UNCHANGED <<bdata, bmeta, btmp, bindex, descCache, stats, work, stored, mfile, mstored, now, cmLife, inflightVars, proxyVars, registryVars>>

\* The files LoadIndex keeps: those json.Unmarshal accepts and whose entry is
\* not past its expiry (cache_storage.go:448-457).
ManifestLoads(f) == f.state = "json" /\ ~(now > Unmarshal(f.doc).expiresAt)

\* The key LoadIndex gives a file (cache_storage.go:460-461): its path
\* relative to the directory, <hash[:2]>/<hash[2:4]>/<hash>.json.
relKey(path) == path

\* FileManifestStore.LoadIndex (cache_storage.go:437-474): every file of the
\* directory is read; a file that does not parse or is expired is removed, any
\* other is entered in the index under the key made of its path.
ManifestLoadIndex ==
    /\ ops < MaxOps
    /\ ops' = ops + 1
    /\ LET loaded == {p \in ManifestPaths : ManifestLoads(mfile[p])}
           entries_ == [p \in ManifestPaths |-> Unmarshal(mfile[p].doc)]
       IN /\ mfile' = [p \in ManifestPaths |->
                          IF p \in loaded THEN mfile[p] ELSE NoMFile]
          /\ mindexByPath' = [p \in ManifestPaths |->
                                 IF \E q \in loaded : relKey(q) = p
                                 THEN entries_[CHOOSE q \in loaded : relKey(q) = p]
                                 ELSE mindexByPath[p]]
          /\ mres' = [kind |-> "LoadIndex", ref |-> <<>>, err |-> "nil",
                      entry |-> NoCacheEntry,
                      count |-> Cardinality(loaded),
                      size |-> SumSizes(loaded, entries_)]
    /\ UNCHANGED <<bdata, bmeta, btmp, bindex, descCache, stats, work, stored, mindex, mstored, now, cmLife, inflightVars, proxyVars, registryVars>>

\* ---- CacheManager.loadIndex, the goroutine NewCacheManager starts ----

\* The goroutine of `go cm.loadIndex()` (cache_manager.go:224).
Loader == "w2"

\* The indexes as NewCacheManager makes them.
FreshIndexes ==
    /\ \A d \in Digests : bindex[d] = NoMeta
    /\ \A ref \in References : mindex[ref] = NoCacheEntry
    /\ \A p \in ManifestPaths : mindexByPath[p] = NoCacheEntry

\* loadIndex, its first half (cache_manager.go:586-587): blobStore.LoadIndex()
\* and manifestStore.LoadIndex() walk the directories of the new process and
\* return their counts and sizes, which the goroutine holds.
LoadIndexScan ==
    /\ \A w \in Workers : Free(w)
    /\ work[Loader].kind = "none"
    /\ FreshIndexes
    /\ ops < MaxOps
    /\ ops' = ops + 1
    /\ LET gone == {f \in BlobPaths : Parses(bmeta[f]) /\ now > bmeta[f].expiresAt}
           loaded == {f \in BlobPaths : Parses(bmeta[f]) /\ ~(now > bmeta[f].expiresAt)}
           mloaded == {p \in ManifestPaths : ManifestLoads(mfile[p])}
           entries_ == [p \in ManifestPaths |-> Unmarshal(mfile[p].doc)]
       IN /\ bindex' = [d \in Digests |->
                           IF Loadable(d) # {} THEN bmeta[CHOOSE f \in Loadable(d) : TRUE]
                           ELSE NoMeta]
          /\ bdata' = [f \in BlobPaths |-> IF f \in gone THEN NoFile ELSE bdata[f]]
          /\ bmeta' = [f \in BlobPaths |-> IF f \in gone THEN NoMeta ELSE bmeta[f]]
          /\ mfile' = [p \in ManifestPaths |-> IF p \in mloaded THEN mfile[p] ELSE NoMFile]
          /\ mindexByPath' = [p \in ManifestPaths |->
                                 IF \E q \in mloaded : relKey(q) = p
                                 THEN entries_[CHOOSE q \in mloaded : relKey(q) = p]
                                 ELSE mindexByPath[p]]
          /\ work' = [work EXCEPT ![Loader] =
                         [IdleWork EXCEPT
                             !.pc = "load_store", !.kind = "loadIndex",
                             !.ret = [NoRet EXCEPT !.count = Cardinality(loaded)],
                             !.manifestCount = Cardinality(mloaded),
                             !.totalSize = SumSizes(loaded, bmeta)
                                               + SumSizes(mloaded, entries_)]]
    /\ UNCHANGED <<btmp, descCache, stats, stored, mindex, mres, mstored, now, cmLife,
                   inflightVars, proxyVars, registryVars>>

\* loadIndex, its second half (cache_manager.go:589-591): the three counters
\* are overwritten with what the walks returned.
LoadIndexStore ==
    /\ work[Loader].pc = "load_store"
    /\ stats' = [stats EXCEPT !.BlobCount = work[Loader].ret.count,
                              !.ManifestCount = work[Loader].manifestCount,
                              !.TotalSize = work[Loader].totalSize]
    /\ work' = [work EXCEPT ![Loader].pc = "done", ![Loader].ret.err = "nil"]
    /\ UNCHANGED <<bdata, bmeta, btmp, bindex, descCache, ops, stored, now, cmLife,
                   inflightVars, proxyVars, manifestVars, registryVars>>

\* The manifest store over a directory that outlives its index: manifests are
\* put, the process starts again, the index is loaded, manifests are read and
\* deleted.
NextManifestRebuild ==
    \/ \E ref \in References, data \in Contents : PutManifest(ref, data, {})
    \/ Restart
    \/ ManifestLoadIndex
    \/ \E ref \in References : GetManifest(ref)
    \/ \E ref \in References : ManifestDelete(ref)
    \/ Tick

\* The counters of CacheManager: blobs and manifests are put, put again, read
\* after their expiry, deleted and swept, and loadIndex stores its counts
\* while the first calls are made.
NextStats ==
    \/ \E ref \in References : PutManifest(ref, RaceContent, {})
    \/ \E ref \in References : Put(ref, CallerEntry(<<1>>, {}, ManifestTTL))
    \/ \E ref \in References : GetManifest(ref)
    \/ \E ref \in References : ManifestDelete(ref)
    \/ ManifestCleanup
    \/ PutWrite("w1", RaceDigest, RaceContent)
    \/ PutVerify("w1")
    \/ PutMove("w1")
    \/ PutMeta("w1")
    \/ PutIndex("w1")
    \/ PutBlobFinish("w1")
    \/ DeleteIndex("w1", RaceDigest)
    \/ DeleteFiles("w1")
    \/ \E maxSize \in MaxSizes : Cleanup("w1", maxSize)
    \/ LoadIndexScan
    \/ LoadIndexStore
    \/ Restart
    \/ Tick

\* The manifest store filled by PutManifest and swept by Cleanup.
NextManifestUpkeep ==
    \/ \E ref \in References, data \in Contents, headers \in HeaderMaps :
          PutManifest(ref, data, headers)
    \/ ManifestCleanup
    \/ Tick

(***************************************************************************)
(*        DockerRegistryCache, the cache of the proxy handler: Set         *)
(***************************************************************************)

\* The TTLs of NewDockerRegistryCache (1 hour and 7 days), in the time unit of
\* the model, and the ttl the handler passes to Set (1 hour).
manifestTTL == 1
blobTTL == 2
HandlerTTL == 1

\* The cache keys of the handler, r.Host + r.URL.Path (generateCacheKey), as
\* sequences of pieces: "/", "." and ":" are pieces of their own.  Host is the
\* host name clients use for the Docker Hub route.
CustomDomain == <<"example.com">>
Host == <<"docker", ".">> \o CustomDomain
ManifestPath(ref) ==
    <<"/", "v2", "/", "library", "/", "nginx", "/", "manifests", "/">> \o ref
BlobPath == <<"/", "v2", "/", "library", "/", "nginx", "/", "blobs", "/", "sha256:", "abc">>
\* strings.Contains(s, sub), both sequences of pieces.
Contains(s, sub) ==
    \E i \in 1 .. Len(s) - Len(sub) + 1 : SubSeq(s, i, i + Len(sub) - 1) = sub

\* generateCacheKey and isCacheable (main.go:946-953).
generateCacheKey(host, path) == host \o path
isCacheable(path) ==
    \/ Contains(path, <<"/", "manifests", "/">>)
    \/ Contains(path, <<"/", "blobs", "/", "sha256:">>)

ManifestKey(ref) == generateCacheKey(Host, ManifestPath(ref))
BlobKey == generateCacheKey(Host, BlobPath)
RegistryKeys == {ManifestKey(ref) : ref \in References} \cup {BlobKey}

\* The paths and the hosts of the requests to /v2/* in the model, by the number
\* of segments after /v2/, and every key generateCacheKey can make of them.
TagsPath == <<"/", "v2", "/", "library", "/", "nginx", "/", "tags", "/", "list">>
V2Paths ==
    {<<"/", "v2", "/", "_catalog">>,
     <<"/", "v2", "/", "nginx", "/", "tags">>,
     <<"/", "v2", "/", "nginx", "/", "manifests", "/", "latest">>,
     <<"/", "v2", "/", "nginx", "/", "tags", "/", "list">>,
     ManifestPath(TagRef),
     TagsPath,
     <<"/", "v2", "/", "a", "/", "b", "/", "manifests", "/", "latest">>}
V2Hosts ==
    {Host, Host \o <<":", "8080">>, <<"quay", ".">> \o CustomDomain,
     <<"docker-staging", ".">> \o CustomDomain, <<"unknown", ".">> \o CustomDomain,
     <<"docker", ".", "mirror.test">>}
CacheKeys ==
    RegistryKeys
        \cup {generateCacheKey(h, p) : h \in V2Hosts, p \in {q \in V2Paths : isCacheable(q)}}

\* CacheItem (cache.go:17-24).
NoItem ==
    [data |-> NoFile, headers |-> {}, status |-> 0, expiresAt |-> -1,
     cachedAt |-> -1, size |-> -1]

\* The expiry Set computes (cache.go:103-111): the path decides, the ttl
\* argument counts for the other keys only.
SetExpiry(key, ttl) ==
    IF Contains(key, <<"/", "manifests", "/">>) THEN now + manifestTTL
    ELSE IF Contains(key, <<"/", "blobs", "/">>) THEN now + blobTTL
    ELSE now + ttl

\* The instants of the model are ticks, TicksPerSecond of them to the second:
\* time.Time keeps the fraction of a second, Unix() drops it.
TicksPerSecond == 3

\* t.Unix(): the whole seconds of the instant t.
Unix(t) == t \div TicksPerSecond

\* time.Unix(sec, 0): the instant at which the second sec begins.
TimeUnix(sec) == sec * TicksPerSecond

\* cacheMetadata as saveToFile marshals it (cache.go:189-198).
NoRcMeta ==
    [state |-> "absent", headers |-> {}, statusCode |-> 0, expiresAt |-> -1,
     cachedAt |-> -1, size |-> -1, contentType |-> ""]
BadRcMeta == [NoRcMeta EXCEPT !.state = "truncated"]
RcMetaFile(item) ==
    [state |-> "json",
     headers |-> {<<JSONString(h[1]), JSONString(h[2])>> : h \in item.headers},
     statusCode |-> item.status,
     expiresAt |-> Unix(item.expiresAt),
     cachedAt |-> Unix(item.cachedAt),
     size |-> item.size,
     contentType |-> JSONString(ContentType(item.headers))]

\* What a client that calls Set and Get itself has seen: the item of its last
\* Set of every key, and its last call with what Get returned.
NoRcRes ==
    [set |-> [k \in CacheKeys |-> NoItem], kind |-> "none", key |-> <<>>,
     found |-> FALSE, item |-> NoItem, at |-> 0]

InitRegistry ==
    /\ rcIndex = [k \in CacheKeys |-> NoItem]
    /\ rcStats = [TotalSize |-> 0, ItemCount |-> 0, Hits |-> 0, Misses |-> 0]
    /\ rcSaves = {}
    /\ rcDeletes = {}
    /\ rcData = [k \in CacheKeys |-> NoFile]
    /\ rcMeta = [k \in CacheKeys |-> NoRcMeta]
    /\ rcRes = NoRcRes

\* DockerRegistryCache.Set (cache.go:102-133): the index, the statistics, and
\* a goroutine that will save the item.
SetItem(key, data, headers, statusCode, ttl) ==
    /\ LET item == [data |-> data, headers |-> headers, status |-> statusCode,
                    expiresAt |-> SetExpiry(key, ttl), cachedAt |-> now,
                    size |-> Len(data)]
       IN /\ rcIndex' = [rcIndex EXCEPT ![key] = item]
          /\ rcStats' = [rcStats EXCEPT !.TotalSize = @ + item.size,
                                        !.ItemCount = @ + 1]
          /\ rcSaves' = rcSaves \cup {[key |-> key, item |-> item]}
    /\ UNCHANGED <<rcData, rcMeta>>

\* Set called on its own, as one of a bounded number of operations.
Set(key, data, headers, statusCode, ttl) ==
    /\ ops < MaxOps
    /\ ops' = ops + 1
    /\ SetItem(key, data, headers, statusCode, ttl)
    /\ UNCHANGED rcRes
    /\ UNCHANGED <<bdata, bmeta, btmp, bindex, descCache, stats, work, stored, now, cmLife,
                   inflightVars, proxyVars, manifestVars>>

\* What saveToFile can leave on the disk (cache.go:170-213): nothing new when
\* MkdirAll or the opening of the data file fails; a part of the data when
\* its write fails; data and sidecar when both writes succeed; and when the
\* write of the sidecar fails, no data file and the sidecar as it was or cut.
SaveOutcomes(key, item) ==
    {[data |-> rcData[key], meta |-> rcMeta[key]]}
        \cup {[data |-> x, meta |-> rcMeta[key]] : x \in Prefixes(item.data)}
        \cup {[data |-> item.data, meta |-> RcMetaFile(item)]}
        \cup {[data |-> NoFile, meta |-> m] : m \in {rcMeta[key], BadRcMeta}}

\* A saveToFile goroutine runs.
SaveToFile ==
    \E s \in rcSaves :
        /\ rcSaves' = rcSaves \ {s}
        /\ \E o \in SaveOutcomes(s.key, s.item) :
              /\ rcData' = [rcData EXCEPT ![s.key] = o.data]
              /\ rcMeta' = [rcMeta EXCEPT ![s.key] = o.meta]
        /\ UNCHANGED <<rcIndex, rcStats, rcRes>>
        /\ UNCHANGED <<blobVars, now, cmLife, inflightVars, proxyVars, manifestVars>>

\* Every path that admits a manifest entry to a cache: PutManifest and the
\* unified Put of CacheManager, and Set as the proxy handler calls it, for a
\* tag and for a digest reference; the body and the headers are fixed, the
\* expiry does not depend on them.
NextWritePaths ==
    \/ \E ref \in References : PutManifest(ref, <<1>>, {})
    \/ \E ref \in References, ttl \in CallerTTLs : Put(ref, CallerEntry(<<1>>, {}, ttl))
    \/ \E key \in RegistryKeys : Set(key, <<1>>, {}, 200, HandlerTTL)
    \/ SaveToFile
    \/ Tick

(***************************************************************************)
(*        ProxyServer (main.go): configuration, routing, rewrites         *)
(***************************************************************************)

\* strings.Index(s, t) for a one-piece t: the first position (from 1), or 0
\* where Go returns -1.
Index(s, t) ==
    IF \E i \in 1 .. Len(s) : s[i] = t
    THEN CHOOSE i \in 1 .. Len(s) : s[i] = t /\ \A j \in 1 .. i - 1 : s[j] # t
    ELSE 0

\* strings.Split(s, sep) and strings.Join(parts, sep) for a one-piece sep.
RECURSIVE Split(_, _)
Split(s, sep) ==
    LET i == Index(s, sep)
    IN IF i = 0 THEN <<s>>
       ELSE <<SubSeq(s, 1, i - 1)>> \o Split(SubSeq(s, i + 1, Len(s)), sep)

RECURSIVE Join(_, _)
Join(parts, sep) ==
    IF Len(parts) = 0 THEN <<>>
    ELSE IF Len(parts) = 1 THEN parts[1]
    ELSE parts[1] \o <<sep>> \o Join(Tail(parts), sep)

\* strings.TrimSpace, for strings whose only spaces are at the ends.
TrimSpace(s) == SelectSeq(s, LAMBDA t : t # " ")

\* getEnv (main.go:963-968); the environment is a record of strings, the
\* empty string for a variable that is not set.
getEnv(env, key, defaultValue) == IF env[key] # <<>> THEN env[key] ELSE defaultValue

\* buildRoutes (main.go:160-179).
Labels ==
    {"docker", "quay", "gcr", "k8s-gcr", "k8s", "ghcr", "cloudsmith", "ecr",
     "docker-staging"}
dockerHub == <<"https://", "registry-1.docker.io">>
buildRoutes(customDomain) ==
    [h \in {<<l, ".">> \o customDomain : l \in Labels} |->
        CASE h[1] = "docker" -> dockerHub
          [] h[1] = "quay" -> <<"https://", "quay.io">>
          [] h[1] = "gcr" -> <<"https://", "gcr.io">>
          [] h[1] = "k8s-gcr" -> <<"https://", "k8s.gcr.io">>
          [] h[1] = "k8s" -> <<"https://", "registry.k8s.io">>
          [] h[1] = "ghcr" -> <<"https://", "ghcr.io">>
          [] h[1] = "cloudsmith" -> <<"https://", "docker.cloudsmith.io">>
          [] h[1] = "ecr" -> <<"https://", "public.ecr.aws">>
          [] h[1] = "docker-staging" -> dockerHub]

\* The built-in blocked host patterns (main.go:80-84), and those of
\* BLOCKED_HOSTS, split at the commas, trimmed, the empty ones dropped
\* (main.go:87-97).
defaultBlockedHostPatterns ==
    <<<<"cloudflare.", "docker.com">>, <<"docker.com">>, <<"docker.io">>>>
externalPatterns(externalBlocked) ==
    IF externalBlocked = <<>> THEN <<>>
    ELSE LET parts == Split(externalBlocked, ",")
             trimmed == [i \in 1 .. Len(parts) |-> TrimSpace(parts[i])]
         IN SelectSeq(trimmed, LAMBDA pattern : pattern # <<>>)

\* Config (main.go:25-36) as NewProxyServer fills it (main.go:110-121), with
\* TARGET_UPSTREAM, which routeByHost reads from the environment.
NoConfig ==
    [started |-> FALSE, CacheEnabled |-> FALSE, Debug |-> FALSE, CustomDomain |-> <<>>,
     Routes |-> <<>>, BlockedHostPatterns |-> <<>>, TargetUpstream |-> <<>>]
NewConfig(env) ==
    [started |-> TRUE,
     CacheEnabled |-> getEnv(env, "CACHE_ENABLED", <<"true">>) = <<"true">>,
     Debug |-> getEnv(env, "DEBUG", <<"false">>) = <<"true">>,
     CustomDomain |-> getEnv(env, "CUSTOM_DOMAIN", <<"example.com">>),
     Routes |-> buildRoutes(getEnv(env, "CUSTOM_DOMAIN", <<"example.com">>)),
     BlockedHostPatterns |->
         defaultBlockedHostPatterns \o externalPatterns(getEnv(env, "BLOCKED_HOSTS", <<>>)),
     TargetUpstream |-> getEnv(env, "TARGET_UPSTREAM", <<>>)]

\* routeByHost without the removal of the port.
routeByHost_Mut(cfg, host) ==
    IF host \in DOMAIN cfg.Routes THEN cfg.Routes[host]
    ELSE IF cfg.Debug /\ cfg.TargetUpstream # <<>> THEN cfg.TargetUpstream
    ELSE <<>>

\* routeByHost (main.go:681-705).
routeByHost(cfg, host) ==
    LET idx == Index(host, ":")
        h == IF idx # 0 THEN SubSeq(host, 1, idx - 1) ELSE host
    IN IF h \in DOMAIN cfg.Routes THEN cfg.Routes[h]
       ELSE IF cfg.Debug /\ cfg.TargetUpstream # <<>> THEN cfg.TargetUpstream
       ELSE <<>>

\* strings.Contains(upstream, "registry-1.docker.io") (main.go:428, 467).
isDockerHub(upstream) == Contains(upstream, <<"registry-1.docker.io">>)

\* processDockerHubLibraryRedirect accepting five parts or more.
processDockerHubLibraryRedirect_Mut(path) ==
    LET parts == Split(path, "/")
    IN IF Len(parts) >= 5 /\ parts[2] = <<"v2">>
       THEN Join(SubSeq(parts, 1, 2) \o <<<<"library">>>> \o SubSeq(parts, 3, Len(parts)), "/")
       ELSE <<>>

\* processDockerHubLibraryRedirect (main.go:707-717); parts[1] of the code is
\* parts[2] here.
processDockerHubLibraryRedirect(path) ==
    LET parts == Split(path, "/")
    IN IF Len(parts) = 5 /\ parts[2] = <<"v2">>
       THEN Join(SubSeq(parts, 1, 2) \o <<<<"library">>>> \o SubSeq(parts, 3, 5), "/")
       ELSE <<>>

\* processDockerHubScope (main.go:719-729).
processDockerHubScope(scope) ==
    LET parts == Split(scope, ":")
    IN IF Len(parts) = 3 /\ ~Contains(parts[2], <<"/">>)
       THEN Join(<<parts[1], <<"library", "/">> \o parts[2], parts[3]>>, ":")
       ELSE scope

\* isBlockedHost returning true on the first pattern it looks at.
isBlockedHost_Mut(cfg, host) == Len(cfg.BlockedHostPatterns) > 0

\* isBlockedHost (main.go:591-601).
isBlockedHost(cfg, host) ==
    \E i \in 1 .. Len(cfg.BlockedHostPatterns) :
        Contains(host, cfg.BlockedHostPatterns[i])

(***************************************************************************)
(*            ProxyServer (main.go): requests and responses               *)
(***************************************************************************)

UserAgent == "go-docker-proxy/1.0"

\* The headers of a request the model follows; "" is an absent header.
NoHeaders == [Authorization |-> "", Accept |-> "", Range |-> "", UserAgent |-> ""]

\* A client request: r.Method, r.Host, r.URL.Path, r.URL.RawQuery, r.Header,
\* and whether it came over TLS (r.TLS != nil).
NoRequest ==
    [endpoint |-> "", method |-> "", host |-> <<>>, path |-> <<>>, query |-> <<>>,
     headers |-> NoHeaders, tls |-> FALSE]

\* What transport.RoundTrip returns: an error, or a response with its status,
\* the headers Location, Content-Length (-1 when absent), Content-Type and
\* WWW-Authenticate, and its body: the bytes that arrive, and whether the read
\* ends with an error instead of EOF.
NoUp ==
    [err |-> FALSE, status |-> 0, location |-> <<>>, clen |-> -1, ctype |-> "",
     www |-> {}, body |-> <<>>, bodyErr |-> FALSE]
TransportError == [NoUp EXCEPT !.err = TRUE]
Upstream(status, body) == [NoUp EXCEPT !.status = status, !.body = body, !.clen = Len(body)]

\* A response to a HEAD request has no body (net/http reads none).
BodyOf(method, up) == IF method = "HEAD" THEN <<>> ELSE up.body

\* What a handler writes: status, the headers Location, X-Cache and
\* WWW-Authenticate (its key="value" pairs), and the body: bytes of an upstream
\* or cached response, or one of the documents the proxy writes itself.
NoResp ==
    [status |-> 0, location |-> <<>>, xcache |-> "", www |-> {}, payload |-> "",
     body |-> <<>>]

\* writeRoutesResponse (main.go:937-944) and the same lines of handleRoot
\* (main.go:281-286).
writeRoutesResponse == [NoResp EXCEPT !.status = 404, !.payload = "routes"]

\* responseUnauthorized (main.go:749-775): the realm is built from the scheme
\* of the request and from r.Host, as it is in debug mode and without its port
\* otherwise.
hostname(host) == IF Index(host, ":") # 0 THEN SubSeq(host, 1, Index(host, ":") - 1) ELSE host
\* Mutant: the scheme is http whatever the connection.
responseUnauthorized_Mut(cfg, r) ==
    LET scheme == "http"
        realm == <<scheme, "://">> \o (IF cfg.Debug THEN r.host ELSE hostname(r.host))
                     \o <<"/v2/auth">>
    IN [NoResp EXCEPT !.status = 401, !.payload = "UNAUTHORIZED",
                      !.www = {<<"realm", realm>>, <<"service", <<"go-docker-proxy">>>>}]
responseUnauthorized(cfg, r) ==
    LET scheme == IF r.tls THEN "https" ELSE "http"
        realm == <<scheme, "://">> \o (IF cfg.Debug THEN r.host ELSE hostname(r.host))
                     \o <<"/v2/auth">>
    IN [NoResp EXCEPT !.status = 401, !.payload = "UNAUTHORIZED",
                      !.www = {<<"realm", realm>>, <<"service", <<"go-docker-proxy">>>>}]

\* writeErrorResponse (main.go:955-961).
writeErrorResponse(statusCode) == [NoResp EXCEPT !.status = statusCode, !.payload = "error"]

\* http.Redirect(w, r, url, code) for a url that is a clean absolute path.
Redirect(url, code) == [NoResp EXCEPT !.status = code, !.location = url, !.payload = "redirect"]

\* copyResponseRoundTrip (main.go:820-855): the headers but the hop-by-hop
\* ones, the status, and the bytes of the body until EOF or an error.
copyResponseRoundTrip(method, up) ==
    [NoResp EXCEPT !.status = up.status, !.location = up.location, !.www = up.www,
                   !.payload = "upstream", !.body = BodyOf(method, up)]

\* serveCachedResponse (main.go:923-935).
serveCachedResponse(item) ==
    [NoResp EXCEPT !.status = item.status, !.xcache = "HIT", !.payload = "cached",
                   !.body = item.data]

\* createProxyRequest (main.go:777-817): the method, the target and the headers
\* of the client, but Connection, Proxy-Connection, Upgrade, Host and
\* Content-Length; a User-Agent when the client sent none.
createProxyRequest(r, url, query) ==
    [method |-> r.method, url |-> url, query |-> query,
     headers |-> [r.headers EXCEPT !.UserAgent = IF @ = "" THEN UserAgent ELSE @]]

\* strconv.Itoa for the lengths of the model.
Itoa(n) == CASE n = 0 -> "0" [] n = 1 -> "1" [] n = 2 -> "2" [] n = 3 -> "3" [] OTHER -> "n"

\* url.Parse(location): an error for the malformed value, else the host
\* between the scheme and the path (none for a relative reference).
BadLocation == <<"http://", "[::1">>
urlParse(location) ==
    IF location = BadLocation THEN [err |-> TRUE, host |-> <<>>, string |-> <<>>]
    ELSE IF location[1] \in {"http://", "https://"}
         THEN [err |-> FALSE, host |-> SubSeq(location, 2, Len(location) - 1),
               string |-> location]
         ELSE [err |-> FALSE, host |-> <<>>, string |-> location]

\* A call `go p.cache.Set(...)` that has not run yet.
NoSet == [key |-> <<>>, data |-> <<>>, headers |-> {}, status |-> 0, ttl |-> 0]

\* What a part of a handler did: the response, the requests sent upstream, the
\* Set goroutine started, and for the probe of /v2/ the number of attempts that
\* failed and the delay slept before each attempt, in milliseconds.
NoOutcome == [resp |-> NoResp, up |-> <<>>, set |-> NoSet, fails |-> 0, delays |-> <<>>]
Outcome(resp, up, set) == [NoOutcome EXCEPT !.resp = resp, !.up = up, !.set = set]

\* followRedirectWithSignedURL (main.go:604-648): a GET with a User-Agent and
\* no other header; the answer is copied whatever its status.
followRedirectWithSignedURL(signedURL, up2) ==
    LET req == [method |-> "GET", url |-> signedURL.string, query |-> <<>>,
                headers |-> [NoHeaders EXCEPT !.UserAgent = UserAgent]]
    IN IF up2.err THEN Outcome(writeErrorResponse(502), <<req>>, NoSet)
       ELSE Outcome(copyResponseRoundTrip("GET", up2), <<req>>, NoSet)

\* copyResponseWithCacheRoundTrip (main.go:858-921); resp.Body is never nil for
\* a response of the transport.
copyResponseWithCacheRoundTrip(method, up, cacheKey, shouldStore) ==
    LET bodyBytes == BodyOf(method, up)
        headersToCache ==
            (IF up.ctype = "" THEN {} ELSE {<<"Content-Type", up.ctype>>})
                \cup {<<"Content-Length", Itoa(Len(bodyBytes))>>}
        plain == [NoResp EXCEPT !.status = up.status, !.location = up.location,
                                !.www = up.www, !.payload = "upstream",
                                !.body = bodyBytes]
    IN IF ~shouldStore \/ up.status # 200 THEN Outcome(plain, <<>>, NoSet)
       ELSE IF up.bodyErr THEN Outcome(plain, <<>>, NoSet)
       ELSE IF Len(bodyBytes) = 0 THEN Outcome(plain, <<>>, NoSet)
       ELSE Outcome([plain EXCEPT !.xcache = "MISS"], <<>>,
                    [key |-> cacheKey, data |-> bodyBytes, headers |-> headersToCache,
                     status |-> up.status, ttl |-> HandlerTTL])

\* proxyRequestWithRoundTrip (main.go:505-588).
proxyRequestWithRoundTrip(cfg, r, targetURL, enableCache, up1, up2) ==
    LET req == createProxyRequest(r, targetURL, r.query)
        redirectURL == urlParse(up1.location)
        shouldCache == cfg.CacheEnabled /\ enableCache /\ isCacheable(r.path)
        copied ==
            IF shouldCache
            THEN copyResponseWithCacheRoundTrip(r.method, up1,
                     generateCacheKey(r.host, r.path), TRUE)
            ELSE copyResponseWithCacheRoundTrip(r.method, up1, <<>>, FALSE)
    IN IF up1.err THEN Outcome(writeErrorResponse(502), <<req>>, NoSet)
       ELSE IF up1.status = 401 THEN Outcome(responseUnauthorized(cfg, r), <<req>>, NoSet)
       ELSE IF /\ up1.status \in {301, 302, 303, 307, 308}
               /\ up1.location # <<>>
               /\ ~redirectURL.err
            THEN IF isBlockedHost(cfg, redirectURL.host)
                 THEN LET f == followRedirectWithSignedURL(redirectURL, up2)
                      IN Outcome(f.resp, <<req>> \o f.up, NoSet)
                 ELSE Outcome(copyResponseRoundTrip(r.method, up1), <<req>>, NoSet)
            ELSE Outcome(copied.resp, <<req>>, copied.set)

(***************************************************************************)
(*     DockerRegistryCache.Get and the handlers of ProxyServer            *)
(***************************************************************************)

\* loadFromFile (cache.go:216-264): the item read from the sidecar and the data
\* file, and the two files as the call leaves them.
loadFromFile(key) ==
    LET meta == rcMeta[key]
        removed == [ok |-> FALSE, item |-> NoItem, data |-> NoFile, meta |-> NoRcMeta]
    IN IF meta.state = "absent"
       THEN [ok |-> FALSE, item |-> NoItem, data |-> rcData[key], meta |-> meta]
       ELSE IF meta.state # "json" THEN removed
       ELSE IF Unix(now) > meta.expiresAt THEN removed
       ELSE IF rcData[key] = NoFile THEN removed
       ELSE [ok |-> TRUE,
             item |-> [data |-> rcData[key], headers |-> meta.headers,
                       status |-> meta.statusCode,
                       expiresAt |-> TimeUnix(meta.expiresAt),
                       cachedAt |-> TimeUnix(meta.cachedAt), size |-> meta.size],
             data |-> rcData[key], meta |-> meta]

\* DockerRegistryCache.Get (cache.go:136-167): what it returns, and the index,
\* the files, the deleteFile goroutines and the counters as it leaves them.
Get(key) ==
    LET item == rcIndex[key]
        exists == item # NoItem
        l == loadFromFile(key)
    IN IF exists /\ now < item.expiresAt
       THEN [found |-> TRUE, item |-> item, index |-> rcIndex, data |-> rcData,
             meta |-> rcMeta, deletes |-> rcDeletes,
             stats |-> [rcStats EXCEPT !.Hits = @ + 1]]
       ELSE [found |-> l.ok, item |-> l.item,
             index |-> [rcIndex EXCEPT ![key] = l.item],
             data |-> [rcData EXCEPT ![key] = l.data],
             meta |-> [rcMeta EXCEPT ![key] = l.meta],
             deletes |-> IF exists THEN rcDeletes \cup {key} ELSE rcDeletes,
             stats |-> IF l.ok THEN [rcStats EXCEPT !.Hits = @ + 1]
                       ELSE [rcStats EXCEPT !.Misses = @ + 1]]

\* deleteFile (cache.go:267-276), a goroutine Get has started.
DeleteFile ==
    \E key \in rcDeletes :
        /\ rcDeletes' = rcDeletes \ {key}
        /\ rcData' = [rcData EXCEPT ![key] = NoFile]
        /\ rcMeta' = [rcMeta EXCEPT ![key] = NoRcMeta]
        /\ rcStats' = [rcStats EXCEPT !.ItemCount = @ - 1]
        /\ UNCHANGED <<rcIndex, rcSaves, rcRes, pxCfg, pxReq, pxResp, pxUp, pxSets>>
        /\ UNCHANGED <<blobVars, now, cmLife, inflightVars, manifestVars>>

\* A goroutine `go p.cache.Set(...)` (main.go:920) runs.
RunSet ==
    \E s \in pxSets :
        /\ pxSets' = pxSets \ {s}
        /\ SetItem(s.key, s.data, s.headers, s.status, s.ttl)
        /\ UNCHANGED <<rcRes, rcDeletes, pxCfg, pxReq, pxResp, pxUp>>
        /\ UNCHANGED <<blobVars, now, cmLife, inflightVars, manifestVars>>

\* NewProxyServer (main.go:75-157) reads the environment.
NewProxyServer(env) ==
    /\ ~pxCfg.started
    /\ pxCfg' = NewConfig(env)
    /\ UNCHANGED <<rcDeletes, pxReq, pxResp, pxUp, pxSets>>
    /\ UNCHANGED <<blobVars, now, cmLife, inflightVars, manifestVars, registryVars>>

\* What every handler leaves alone.
handlerFrame ==
    <<pxCfg, rcSaves, rcRes, bdata, bmeta, btmp, bindex, descCache, stats, work, stored, now, cmLife,
      inflightVars, manifestVars>>

\* The request a handler was called with, when, the upstream routeByHost
\* gave it, and the answers its requests got.
NoServed ==
    [r |-> NoRequest, at |-> 0, upstream |-> <<>>, up1 |-> NoUp, up2 |-> NoUp,
     fails |-> 0, delays |-> <<>>]
Served(r, upstream, out, up1, up2) ==
    [NoServed EXCEPT !.r = r, !.at = now, !.upstream = upstream,
                     !.up1 = IF Len(out.up) >= 1 THEN up1 ELSE NoUp,
                     !.up2 = IF Len(out.up) >= 2 THEN up2 ELSE NoUp,
                     !.fails = out.fails, !.delays = out.delays]

\* A handler that does not touch the cache.
Respond(r, upstream, out, up1, up2) ==
    /\ pxCfg.started
    /\ ops < MaxOps
    /\ ops' = ops + 1
    /\ pxReq' = Served(r, upstream, out, up1, up2)
    /\ pxResp' = out.resp
    /\ pxUp' = out.up
    /\ pxSets' = IF out.set = NoSet THEN pxSets ELSE pxSets \cup {out.set}

\* handleRoot (main.go:277-290).
handleRoot(r) ==
    LET upstream == routeByHost(pxCfg, r.host)
        out == IF upstream = <<>> THEN Outcome(writeRoutesResponse, <<>>, NoSet)
               ELSE Outcome(Redirect(<<"/", "v2", "/">>, 301), <<>>, NoSet)
    IN /\ Respond(r, upstream, out, NoUp, NoUp)
       /\ UNCHANGED <<rcIndex, rcData, rcMeta, rcDeletes, rcStats>>
       /\ UNCHANGED handlerFrame

\* handleV2Root (main.go:292-364): up to three attempts; the first `fails` of
\* the upstream's answers are transport errors, the next one is up1.  Attempt
\* i (from 0) is made after time.Sleep(i * 100 ms) when i > 0.
maxRetries == 3
\* Mutant: the same delay before every retry.
retryDelay_Mut(i) == IF i > 0 THEN 100 ELSE 0
retryDelay(i) == IF i > 0 THEN i * 100 ELSE 0
handleV2Root(r, fails, up1) ==
    LET upstream == routeByHost(pxCfg, r.host)
        req == createProxyRequest(r, upstream \o <<"/", "v2", "/">>, <<>>)
        attempts == IF fails < maxRetries THEN fails + 1 ELSE maxRetries
        sent == [i \in 1 .. attempts |-> req]
        delays == [i \in 1 .. attempts |-> retryDelay(i - 1)]
        res == IF fails >= maxRetries THEN Outcome(writeErrorResponse(502), sent, NoSet)
               ELSE IF up1.status = 401
                    THEN Outcome(responseUnauthorized(pxCfg, r), sent, NoSet)
               ELSE Outcome(copyResponseRoundTrip(r.method, up1), sent, NoSet)
        out == IF upstream = <<>> THEN Outcome(writeRoutesResponse, <<>>, NoSet)
               ELSE [res EXCEPT !.fails = fails, !.delays = delays]
    IN /\ Respond(r, upstream, out, IF fails >= maxRetries THEN TransportError ELSE up1, NoUp)
       /\ UNCHANGED <<rcIndex, rcData, rcMeta, rcDeletes, rcStats>>
       /\ UNCHANGED handlerFrame

\* parseAuthenticate (main.go:731-747): the key="value" pairs of the header;
\* an error when none of them is the realm.
parseAuthenticate(www) ==
    [err |-> ~\E p \in www : p[1] = "realm",
     realm |-> IF \E p \in www : p[1] = "realm"
               THEN (CHOOSE p \in www : p[1] = "realm")[2] ELSE <<>>,
     service |-> IF \E p \in www : p[1] = "service"
                 THEN (CHOOSE p \in www : p[1] = "service")[2] ELSE <<>>]

\* fetchTokenWithRoundTrip (main.go:651-679): the request it sends.
tokenRequest(wwwAuth, scope, authorization) ==
    [method |-> "GET", url |-> wwwAuth.realm,
     query |-> (IF wwwAuth.service # <<>> THEN <<"service=">> \o wwwAuth.service ELSE <<>>)
                 \o (IF scope # <<>> THEN <<"scope=">> \o scope ELSE <<>>),
     headers |-> [NoHeaders EXCEPT !.Authorization = authorization,
                                   !.UserAgent = UserAgent]]

\* handleAuth (main.go:366-450); the scope is the query of the request.
handleAuth(r, up1, token) ==
    LET upstream == routeByHost(pxCfg, r.host)
        scope == r.query
        req == [createProxyRequest(r, upstream \o <<"/", "v2", "/">>, <<>>)
                    EXCEPT !.method = "GET"]
        wwwAuth == parseAuthenticate(up1.www)
        newScope == IF isDockerHub(upstream) /\ scope # <<>>
                    THEN processDockerHubScope(scope) ELSE scope
        treq == tokenRequest(wwwAuth, newScope, r.headers.Authorization)
        out == IF upstream = <<>> THEN Outcome(writeRoutesResponse, <<>>, NoSet)
               ELSE IF up1.err THEN Outcome(writeErrorResponse(500), <<req>>, NoSet)
               ELSE IF up1.status # 401
                    THEN Outcome(copyResponseRoundTrip("GET", up1), <<req>>, NoSet)
               ELSE IF up1.www = {}
                    THEN Outcome(copyResponseRoundTrip("GET", up1), <<req>>, NoSet)
               ELSE IF wwwAuth.err THEN Outcome(writeErrorResponse(500), <<req>>, NoSet)
               ELSE IF token.err THEN Outcome(writeErrorResponse(500), <<req, treq>>, NoSet)
               ELSE Outcome(copyResponseRoundTrip("GET", token), <<req, treq>>, NoSet)
    IN /\ Respond(r, upstream, out, up1, token)
       /\ UNCHANGED <<rcIndex, rcData, rcMeta, rcDeletes, rcStats>>
       /\ UNCHANGED handlerFrame

\* handleV2Request (main.go:452-502).
handleV2Request(r, up1, up2) ==
    LET upstream == routeByHost(pxCfg, r.host)
        redirectURL == processDockerHubLibraryRedirect(r.path)
        redirected == isDockerHub(upstream) /\ redirectURL # <<>>
        lookup == pxCfg.CacheEnabled /\ isCacheable(r.path)
        cached == Get(generateCacheKey(r.host, r.path))
        out == IF upstream = <<>> THEN Outcome(writeRoutesResponse, <<>>, NoSet)
               ELSE IF redirected THEN Outcome(Redirect(redirectURL, 301), <<>>, NoSet)
               ELSE IF lookup /\ cached.found
                    THEN Outcome(serveCachedResponse(cached.item), <<>>, NoSet)
               ELSE proxyRequestWithRoundTrip(pxCfg, r, upstream \o r.path, TRUE, up1, up2)
    IN /\ Respond(r, upstream, out, up1, up2)
       /\ IF upstream # <<>> /\ ~redirected /\ lookup
          THEN /\ rcIndex' = cached.index
               /\ rcData' = cached.data
               /\ rcMeta' = cached.meta
               /\ rcDeletes' = cached.deletes
               /\ rcStats' = cached.stats
          ELSE UNCHANGED <<rcIndex, rcData, rcMeta, rcDeletes, rcStats>>
       /\ UNCHANGED handlerFrame

(***************************************************************************)
(*              The environments and the requests of the model            *)
(***************************************************************************)

NoEnv ==
    [CUSTOM_DOMAIN |-> <<>>, CACHE_ENABLED |-> <<>>, DEBUG |-> <<>>,
     BLOCKED_HOSTS |-> <<>>, TARGET_UPSTREAM |-> <<>>]

\* The hosts a Location header names: the CDN of Docker Hub, a host of S3, a
\* host that has "docker.com" inside a longer name, and none (a relative
\* reference).
CDNHost == <<"production.", "cloudflare.", "docker.com">>
S3Host == <<"s3.", "amazonaws.com">>
LongHost == <<"my", "docker.com", "munity.net">>
LocationOf(host) == <<"https://">> \o host \o <<"/blob?sig=1">>
RelativeLocation == <<"/v2/other">>

\* ---- the handler of /v2/* and the redirects of the upstream ----
ProxyEnvs ==
    {NoEnv, [NoEnv EXCEPT !.CACHE_ENABLED = <<"false">>],
     [NoEnv EXCEPT !.BLOCKED_HOSTS = <<" ", "amazonaws.com", ",", " ">>]}

ClientHeaders ==
    {NoHeaders,
     [Authorization |-> "Bearer t", Accept |-> "application/json",
      Range |-> "bytes=0-0", UserAgent |-> "docker/24"]}

ProxyRequest(method, path, headers) ==
    [NoRequest EXCEPT !.endpoint = "/v2/*", !.method = method, !.host = Host,
                      !.path = path, !.headers = headers]

RedirectRequests ==
    {ProxyRequest("GET", ManifestPath(TagRef), h) : h \in ClientHeaders}
        \cup {ProxyRequest("HEAD", ManifestPath(TagRef), NoHeaders),
              ProxyRequest("GET", TagsPath, NoHeaders)}

Redirects ==
    {[NoUp EXCEPT !.status = 307, !.location = l] :
        l \in {<<>>, BadLocation, RelativeLocation, LocationOf(CDNHost),
               LocationOf(S3Host), LocationOf(LongHost)}}
        \cup {[NoUp EXCEPT !.status = 302, !.location = LocationOf(CDNHost)],
              [NoUp EXCEPT !.status = 301, !.location = LocationOf(S3Host)]}

FollowAnswers ==
    {TransportError, Upstream(200, <<1>>), Upstream(403, <<1>>),
     [Upstream(302, <<>>) EXCEPT !.location = LocationOf(S3Host)]}

\* The answers a handler call can get: that of the upstream, and that of the
\* target of the redirect when the upstream names one.
RedirectAnswers ==
    {<<up1, up2>> \in (Redirects \cup {Upstream(200, <<1>>), Upstream(404, <<1>>)})
                        \X (FollowAnswers \cup {NoUp}) :
        (up2 # NoUp) <=> (up1.location \notin {<<>>, BadLocation, RelativeLocation})}

NextProxy ==
    \/ \E env \in ProxyEnvs : NewProxyServer(env)
    \/ \E r \in RedirectRequests, a \in RedirectAnswers : handleV2Request(r, a[1], a[2])
    \/ RunSet
    \/ SaveToFile

\* ---- the handler of /v2/* and its cache ----
CacheEnvs == {NoEnv, [NoEnv EXCEPT !.CACHE_ENABLED = <<"false">>]}

CacheRequests ==
    {ProxyRequest(m, ManifestPath(TagRef), NoHeaders) : m \in {"GET", "HEAD", "PUT"}}
        \cup {ProxyRequest("GET", TagsPath, NoHeaders)}

\* Bodies of the model: none and one byte.
Bodies == {<<>>, <<1>>}

CacheAnswers ==
    {TransportError}
        \cup {Upstream(200, b) : b \in Bodies}
        \cup {[Upstream(200, <<1>>) EXCEPT !.clen = -1],
              [Upstream(200, <<1>>) EXCEPT !.clen = 2, !.bodyErr = TRUE],
              Upstream(206, <<1>>), Upstream(404, <<1>>)}

NextCache ==
    \/ \E env \in CacheEnvs : NewProxyServer(env)
    \/ \E r \in CacheRequests, up1 \in CacheAnswers : handleV2Request(r, up1, NoUp)
    \/ RunSet
    \/ SaveToFile
    \/ DeleteFile
    \/ Tick

\* ---- DockerRegistryCache called by a client: Set, then Get as time passes ----

\* Set(key, data, nil, 200, ttl), called by the client itself.
CacheSet(key, data) ==
    /\ ops < MaxOps
    /\ ops' = ops + 1
    /\ SetItem(key, data, {}, 200, HandlerTTL)
    /\ rcRes' = [rcRes EXCEPT !.set[key] = rcIndex'[key], !.kind = "Set", !.key = key,
                              !.found = FALSE, !.item = NoItem, !.at = now]
    /\ UNCHANGED <<bdata, bmeta, btmp, bindex, descCache, stats, work, stored, now, cmLife,
                   inflightVars, proxyVars, manifestVars>>

\* Get(key), called by the client itself.
CacheGet(key) ==
    LET got == Get(key)
    IN /\ ops < MaxOps
       /\ ops' = ops + 1
       /\ rcIndex' = got.index
       /\ rcData' = got.data
       /\ rcMeta' = got.meta
       /\ rcDeletes' = got.deletes
       /\ rcStats' = got.stats
       /\ rcRes' = [rcRes EXCEPT !.kind = "Get", !.key = key, !.found = got.found,
                                 !.item = got.item, !.at = now]
       /\ UNCHANGED <<rcSaves, pxCfg, pxReq, pxResp, pxUp, pxSets>>
       /\ UNCHANGED <<bdata, bmeta, btmp, bindex, descCache, stats, work, stored, now,
                      cmLife, inflightVars, manifestVars>>

NextExpiry ==
    \/ \E key \in RegistryKeys : CacheSet(key, <<1>>)
    \/ \E key \in RegistryKeys : CacheGet(key)
    \/ SaveToFile
    \/ DeleteFile
    \/ Tick

\* ---- CacheManager called with cache keys: CacheKey, ParsePath, Put and Get ----

\* CacheKey (cache_manager.go:491-493).
CacheKey(host, path) == host \o path

\* strings.Index(s, sub) for a sub of several pieces: the first position
\* (from 1), or 0 where Go returns -1.
IndexOf(s, sub) ==
    LET at == {i \in 1 .. Len(s) - Len(sub) + 1 : SubSeq(s, i, i + Len(sub) - 1) = sub}
    IN IF at = {} THEN 0 ELSE CHOOSE i \in at : \A j \in at : i <= j

\* ParsePath (cache_manager.go:497-525): what follows the first "/v2/" is
\* split at "/"; the first part that is "manifests" or "blobs" and has a part
\* after it separates the repository from the reference.
NoParse == [type |-> "", repo |-> <<>>, ref |-> <<>>]
ParsePath(path) ==
    LET idx == IndexOf(path, <<"/", "v2", "/">>)
        parts == Split(SubSeq(path, idx + 3, Len(path)), "/")
        hits == {i \in 1 .. Len(parts) - 1 : parts[i] \in {<<"manifests">>, <<"blobs">>}}
        i == CHOOSE h \in hits : \A j \in hits : h <= j
    IN IF idx = 0 \/ Len(parts) < 3 \/ hits = {} THEN NoParse
       ELSE [type |-> IF parts[i] = <<"manifests">> THEN "manifest" ELSE "blob",
             repo |-> Join(SubSeq(parts, 1, i - 1), "/"),
             ref |-> Join(SubSeq(parts, i + 1, Len(parts)), "/")]

\* The hosts of two routes with different upstreams, and paths of manifests.
QuayHost == <<"quay", ".">> \o CustomDomain
SplitPath == <<"/", "v2", "/", "library", "/", "manifests", "/", "nginx", "/", "latest">>
ManagerKeys ==
    {CacheKey(h, p) : h \in {Host, QuayHost},
                      p \in {ManifestPath(TagRef), ManifestPath(DigestRef), SplitPath}}

\* The key of the manifest store a cache key comes to, and the place of that
\* key in the index of the model, which holds the keys getKey(Repo, ref).
StoreKey(cacheKey) == getKey(ParsePath(cacheKey).repo, ParsePath(cacheKey).ref)
KeyRef(key) == CHOOSE ref \in References : getKey(Repo, ref) = key

\* CacheManager.Put(cacheKey, entry) (cache_manager.go:459-484) for a key
\* ParsePath takes for a manifest: manifestStore.Put(ctx, repo, reference, entry).
ManagerPut(cacheKey, entry) ==
    /\ ops < MaxOps
    /\ ops' = ops + 1
    /\ ParsePath(cacheKey).type = "manifest"
    /\ LET ref == KeyRef(StoreKey(cacheKey))
           path == getManifestPath(ParsePath(cacheKey).repo, ParsePath(cacheKey).ref)
       IN \E o \in ManifestPutOutcomes(path, entry) :
            /\ mfile' = [mfile EXCEPT ![path] = o.file]
            /\ mres' = [kind |-> "Put", ref |-> ref, err |-> o.err,
                        entry |-> NoCacheEntry, key |-> cacheKey]
            /\ IF o.err = "nil"
               THEN /\ mindex' = [mindex EXCEPT ![ref] = entry]
                    /\ mstored' = [mstored EXCEPT ![ref] =
                                     [via |-> "Put", entry |-> entry, data |-> entry.data,
                                      key |-> cacheKey]]
               ELSE UNCHANGED <<mindex, mstored>>
    /\ UNCHANGED <<bdata, bmeta, btmp, bindex, descCache, stats, work, stored, mindexByPath,
                   now, cmLife, inflightVars, proxyVars, registryVars>>

\* CacheManager.Get(cacheKey) (cache_manager.go:393-425) for a key ParsePath
\* takes for a manifest: GetManifest(ctx, repo, reference).
ManagerGet(cacheKey) ==
    /\ ops < MaxOps
    /\ ops' = ops + 1
    /\ ParsePath(cacheKey).type = "manifest"
    /\ LET ref == KeyRef(StoreKey(cacheKey))
           r == ManifestGet(ref)
       IN /\ mindex' = r.index
          /\ mfile' = [mfile EXCEPT ![getManifestPath(Repo, ref)] = r.file]
          /\ mres' = [kind |-> "Get", ref |-> ref, err |-> r.err, entry |-> r.entry,
                      key |-> cacheKey]
          /\ IF r.err = "nil"
             THEN stats' = [stats EXCEPT !.ManifestHits = @ + 1]
             ELSE stats' = [stats EXCEPT !.ManifestMisses = @ + 1]
    /\ UNCHANGED <<bdata, bmeta, btmp, bindex, descCache, work, stored, mstored,
                   mindexByPath, now, cmLife, inflightVars, proxyVars, registryVars>>

NextKeys ==
    \/ \E k \in ManagerKeys, c \in {<<1>>, <<1, 2>>} :
          ManagerPut(k, CallerEntry(c, {}, ManifestTTL))
    \/ \E k \in ManagerKeys : ManagerGet(k)
    \/ Tick

\* ---- routing: every handler, upstreams that answer without a body to cache ----
RouteEnvs ==
    {[NoEnv EXCEPT !.DEBUG = d, !.TARGET_UPSTREAM = t] :
        d \in {<<>>, <<"true">>}, t \in {<<>>, <<"http://", "localhost:5000">>}}
        \cup {[NoEnv EXCEPT !.CUSTOM_DOMAIN = <<"mirror.test">>]}

RouteHosts ==
    {<<l, ".">> \o CustomDomain : l \in Labels}
        \cup V2Hosts \cup {<<"localhost", ":", "8080">>, <<"docker">>}

Scopes ==
    {<<>>,
     <<"repository", ":", "nginx", ":", "pull">>,
     <<"repository", ":", "nginx", ":", "pull", ",", "push">>,
     <<"repository", ":", "library", "/", "nginx", ":", "pull">>,
     <<"repository", ":", "user", "/", "app", ":", "pull">>,
     <<"registry", ":", "catalog", ":", "*">>,
     <<"repository", ":", "nginx">>,
     <<"repository", ":", "a", ":", "pull", " ", "repository", ":", "b", ":", "pull">>}

Request(endpoint, host, path, query) ==
    [NoRequest EXCEPT !.endpoint = endpoint, !.method = "GET", !.host = host,
                      !.path = path, !.query = query]

Realm == <<"https://", "auth.docker.io", "/token">>
Challenge ==
    [Upstream(401, <<>>) EXCEPT
        !.www = {<<"realm", Realm>>, <<"service", <<"registry.docker.io">>>>}]
AuthAnswers ==
    {Challenge, TransportError, Upstream(200, <<>>), Upstream(401, <<>>),
     [Upstream(401, <<>>) EXCEPT !.www = {<<"service", <<"registry.docker.io">>>>}]}
RootFails == {0, maxRetries}
RootAnswers == {Upstream(200, <<>>), Upstream(401, <<>>)}
Token == Upstream(200, <<1>>)
TokenAnswers == {Token, TransportError}
NotFound == Upstream(404, <<1>>)
PullScope == <<"repository", ":", "nginx", ":", "pull">>

NextRoute ==
    \/ \E env \in RouteEnvs : NewProxyServer(env)
    \/ \E host \in RouteHosts : handleRoot(Request("/", host, <<"/">>, <<>>))
    \/ \E host \in V2Hosts, fails \in RootFails, up1 \in RootAnswers :
          handleV2Root(Request("/v2/", host, <<"/", "v2", "/">>, <<>>), fails, up1)
    \/ \E host \in V2Hosts, scope \in Scopes :
          handleAuth(Request("/v2/auth", host, <<"/", "v2", "/", "auth">>, scope),
                     Challenge, Token)
    \/ \E up1 \in AuthAnswers, token \in TokenAnswers, scope \in {PullScope} :
          handleAuth(Request("/v2/auth", Host, <<"/", "v2", "/", "auth">>, scope),
                     up1, token)
    \/ \E host \in V2Hosts, path \in V2Paths :
          handleV2Request(Request("/v2/*", host, path, <<>>), NotFound, NoUp)

\* ---- the challenge and the token exchange: upstreams that refuse or fail ----
AuthEnvs == {[NoEnv EXCEPT !.DEBUG = d] : d \in {<<>>, <<"true">>}}
AuthHosts ==
    {Host, Host \o <<":", "8080">>, <<"quay", ".">> \o CustomDomain,
     <<"unknown", ".">> \o CustomDomain}
TokenHosts == {Host, <<"quay", ".">> \o CustomDomain}
AuthPaths == {TagsPath, ManifestPath(TagRef)}
AuthScopes == {<<>>, PullScope, <<"registry", ":", "catalog", ":", "*">>}
Credentials == {"", "Basic dXNlcg=="}
\* An upstream that refuses with a challenge of its own and a body.
Denied ==
    [Upstream(401, <<1>>) EXCEPT
        !.www = {<<"realm", Realm>>, <<"service", <<"registry.docker.io">>>>}]
NoService == [Upstream(401, <<>>) EXCEPT !.www = {<<"realm", Realm>>}]
NoRealm == [Upstream(401, <<>>) EXCEPT !.www = {<<"service", <<"registry.docker.io">>>>}]
ProbeFails == 0 .. maxRetries
ProbeAnswers == {Upstream(200, <<>>), Upstream(502, <<1>>), Denied}
RefusedAnswers == {Denied, TransportError}
ChallengeAnswers ==
    {Denied, NoService, NoRealm, TransportError, Upstream(200, <<>>), Upstream(401, <<>>)}
TokenReplies == {Token, Upstream(401, <<1, 2>>), TransportError}

NextAuth ==
    \/ \E env \in AuthEnvs : NewProxyServer(env)
    \/ \E host \in AuthHosts, fails \in ProbeFails, up1 \in ProbeAnswers, tls \in BOOLEAN :
          handleV2Root([Request("/v2/", host, <<"/", "v2", "/">>, <<>>) EXCEPT !.tls = tls],
                       fails, up1)
    \/ \E host \in TokenHosts, scope \in AuthScopes, cred \in Credentials,
          up1 \in ChallengeAnswers, token \in TokenReplies :
          handleAuth([Request("/v2/auth", host, <<"/", "v2", "/", "auth">>, scope)
                          EXCEPT !.headers.Authorization = cred],
                     up1, token)
    \/ \E host \in AuthHosts, path \in AuthPaths, up1 \in RefusedAnswers, tls \in BOOLEAN :
          handleV2Request([Request("/v2/*", host, path, <<>>) EXCEPT !.tls = tls],
                          up1, NoUp)

\* ---- credentials and the cache: an upstream that answers by the token ----

\* The requests of two clients for one manifest, one with a token, one without.
Bearer == "Bearer t"
CredRequests ==
    {ProxyRequest("GET", ManifestPath(TagRef), [NoHeaders EXCEPT !.Authorization = a]) :
        a \in {"", Bearer}}

\* An upstream that releases the manifest to the request that carries the
\* token and refuses every other with a challenge: its answer to the request
\* the proxy makes of the client's.
Released == Upstream(200, <<1>>)
GuardedUpstream(r) ==
    IF createProxyRequest(r, <<>>, <<>>).headers.Authorization = Bearer
    THEN Released ELSE Denied

NextCred ==
    \/ NewProxyServer(NoEnv)
    \/ \E r \in CredRequests : handleV2Request(r, GuardedUpstream(r), NoUp)
    \/ RunSet
    \/ SaveToFile
    \/ DeleteFile
    \/ Tick

InitProxy ==
    /\ pxCfg = NoConfig
    /\ pxReq = NoServed
    /\ pxResp = NoResp
    /\ pxUp = <<>>
    /\ pxSets = {}

(***************************************************************************)
(*           CacheManager: the cleanup goroutine and Close                 *)
(***************************************************************************)

\* cm.config.MaxSize in the model's unit of size (DefaultCacheConfig: 10 GB).
ConfigMaxSize == 3

\* After NewCacheManager (cache_manager.go:206-226): the context is live,
\* cleanupLoop has been started and waits in its select, ticker.C is empty,
\* Close has not been called.  lateStart: a cleanup pass has started after
\* cancel().
NewLife ==
    [ctx |-> "live", loop |-> "select", ticker |-> FALSE, close |-> "idle",
     lateStart |-> FALSE, lastCleanup |-> -1]

InitLife == cmLife = NewLife

lifeFrame == <<now, inflightVars, proxyVars, registryVars>>

\* The ticker of cleanupLoop (cache_manager.go:550-551) sends on ticker.C, a
\* channel that holds one value, every CleanupInterval until ticker.Stop()
\* runs at the return of cleanupLoop.
TickerFires ==
    /\ cmLife.loop # "exited"
    /\ ~cmLife.ticker
    /\ cmLife' = [cmLife EXCEPT !.ticker = TRUE]
    /\ UNCHANGED <<blobVars, manifestVars, lifeFrame>>

\* select takes `case <-ticker.C` (cache_manager.go:557-558): it can when a
\* value waits in ticker.C, whether or not ctx.Done() is closed as well; with
\* both ready Go picks one at random.  cm.cleanup() starts.
LoopTick ==
    /\ cmLife.loop = "select"
    /\ cmLife.ticker
    /\ cmLife' = [cmLife EXCEPT !.ticker = FALSE, !.loop = "manifests",
                                !.lastCleanup = now,
                                !.lateStart = @ \/ cmLife.ctx = "cancelled"]
    /\ UNCHANGED <<blobVars, manifestVars, lifeFrame>>

\* select takes `case <-cm.ctx.Done()` (cache_manager.go:555-556): the loop
\* returns, and the deferred wg.Done() runs.
LoopDone ==
    /\ cmLife.loop = "select"
    /\ cmLife.ctx = "cancelled"
    /\ cmLife' = [cmLife EXCEPT !.loop = "exited"]
    /\ UNCHANGED <<blobVars, manifestVars, lifeFrame>>

\* cm.cleanup(), first half (cache_manager.go:563-567): manifestStore.Cleanup()
\* deletes the expired entries from the index (cache_storage.go:415-434).
PassManifests ==
    /\ cmLife.loop = "manifests"
    /\ cmLife' = [cmLife EXCEPT !.loop = "blobs"]
    /\ mindex' = [ref \in References |->
                     IF mindex[ref] # NoCacheEntry /\ now > mindex[ref].expiresAt
                     THEN NoCacheEntry ELSE mindex[ref]]
    /\ mindexByPath' = [p \in ManifestPaths |->
                           IF mindexByPath[p] # NoCacheEntry
                                 /\ now > mindexByPath[p].expiresAt
                           THEN NoCacheEntry ELSE mindexByPath[p]]
    /\ UNCHANGED <<blobVars, mfile, mres, mstored, lifeFrame>>

\* cm.cleanup(), second half (cache_manager.go:569-576):
\* blobStore.Cleanup(cm.config.MaxSize) (cache_storage.go:209-249), then
\* stats.LastCleanup = now.  None of the counters of stats is touched.
PassBlobs ==
    /\ cmLife.loop = "blobs"
    /\ cmLife' = [cmLife EXCEPT !.loop = "select"]
    /\ LET indexed == {d \in Digests : bindex[d] # NoMeta}
           expired == {d \in indexed : now > bindex[d].expiresAt}
           totalSize == SumSizes(indexed \ expired, bindex)
       IN \E evicted \in Evictions(indexed \ expired, bindex, totalSize, ConfigMaxSize) :
            LET toDelete == expired \cup evicted
                paths == {getPath(d) : d \in toDelete}
            IN /\ bindex' = [d \in Digests |-> IF d \in toDelete THEN NoMeta ELSE bindex[d]]
               /\ bdata' = [f \in BlobPaths |-> IF f \in paths THEN NoFile ELSE bdata[f]]
               /\ bmeta' = [f \in BlobPaths |-> IF f \in paths THEN NoMeta ELSE bmeta[f]]
               /\ stored' = [d \in Digests |-> IF d \in toDelete THEN NoStored ELSE stored[d]]
    /\ UNCHANGED <<btmp, descCache, stats, work, ops, manifestVars, lifeFrame>>

\* CacheManager.Close, cm.cancel() (cache_manager.go:230-231).
Close ==
    /\ cmLife.close = "idle"
    /\ cmLife' = [cmLife EXCEPT !.ctx = "cancelled", !.close = "waiting"]
    /\ UNCHANGED <<blobVars, manifestVars, lifeFrame>>

\* cm.wg.Wait() returns once cleanupLoop has called wg.Done(), and Close
\* returns nil (cache_manager.go:232-233).
CloseReturn ==
    /\ cmLife.close = "waiting"
    /\ cmLife.loop = "exited"
    /\ cmLife' = [cmLife EXCEPT !.close = "returned"]
    /\ UNCHANGED <<blobVars, manifestVars, lifeFrame>>

\* A cache manager that stores manifests while its cleanup goroutine runs, and
\* is closed.
NextLife ==
    \/ PutManifest(TagRef, RaceContent, {})
    \/ TickerFires
    \/ LoopTick
    \/ LoopDone
    \/ PassManifests
    \/ PassBlobs
    \/ Close
    \/ CloseReturn
    \/ Tick

(***************************************************************************)
(*                            Specifications                               *)
(***************************************************************************)

Init ==
    /\ InitInflight /\ now = 0 /\ InitLife
    /\ InitBlob /\ InitManifest /\ InitRegistry /\ InitProxy

SpecInflight == Init /\ [][NextInflight]_vars

\* The Go scheduler runs every runnable goroutine: a follower that reached wait
\* evaluates the select, and a woken follower finishes its wait.  Nothing forces
\* a first caller to call done, or a context to be cancelled.
SpecInflightFair ==
    /\ SpecInflight
    /\ \A p \in Callers :
          /\ WF_vars(WaitReturnDone(p))
          /\ WF_vars(WaitReturnCtx(p))

\* The blob store called by one goroutine: every sequence of Put, Stat, Get and
\* Delete calls, each able to fail where the code can fail, with time passing
\* between any two steps.
SpecBlob == Init /\ [][NextBlob({"w1"})]_vars

\* CacheManager with its cleanup goroutine, and Close.
SpecLife == Init /\ [][NextLife]_vars

\* The same under the scheduling Go gives: a goroutine that can run does, and
\* a select that is ready again and again with ctx.Done() closed takes that
\* case in the end, the choice among ready cases being random.
SpecLifeFair ==
    /\ SpecLife
    /\ WF_vars(LoopTick) /\ WF_vars(PassManifests) /\ WF_vars(PassBlobs)
    /\ SF_vars(LoopDone) /\ WF_vars(CloseReturn)

\* CacheManager.TryInflight over the InflightManager.
SpecTryInflight == Init /\ [][NextTryInflight]_vars

\* CacheManager.GetBlob over a store that is filled and swept.
SpecGetBlob == Init /\ [][NextGetBlob]_vars

\* FileBlobStore called by two goroutines on one digest.
SpecBlobRace == Init /\ [][NextBlobRace]_vars

\* The blob store with its upkeep: Put by one goroutine, Cleanup with every
\* size limit and LoadIndex at a start of the process, with time passing.
SpecBlobUpkeep == Init /\ [][NextBlobUpkeep]_vars

\* The manifest store with its upkeep: PutManifest and Cleanup.
SpecManifestUpkeep == Init /\ [][NextManifestUpkeep]_vars

\* The manifest store and the manifest calls of CacheManager, called by one
\* goroutine, with restarts of the process and time passing between calls.
SpecManifest == Init /\ [][NextManifest]_vars

\* FileManifestStore with LoadIndex after a restart.
SpecManifestRebuild == Init /\ [][NextManifestRebuild]_vars

\* The write paths of the caches that hold manifests.
SpecWritePaths == Init /\ [][NextWritePaths]_vars

\* The handler of /v2/* serving one request after another on the Docker Hub
\* route, the upstream answering with redirects of every kind.
SpecProxy == Init /\ [][NextProxy]_vars

\* The same handler and the cache: answers that can be admitted, the
\* goroutines Set and Get start, and time passing between the steps.
SpecCache == Init /\ [][NextCache]_vars

\* The statistics of CacheManager under every operation that adds or removes.
SpecStats == Init /\ [][NextStats]_vars

\* The handler and the cache between a client with a token and one without.
SpecCred == Init /\ [][NextCred]_vars

\* CacheManager.Put and Get by cache key, for two hosts and three paths.
SpecKeys == Init /\ [][NextKeys]_vars

\* DockerRegistryCache on its own: Set, Get, the goroutines they start, time.
SpecExpiry == Init /\ [][NextExpiry]_vars

\* The four handlers on every host, under every environment of the model.
SpecRoute == Init /\ [][NextRoute]_vars

\* The probe of /v2/, the token exchange of /v2/auth and /v2/* against
\* upstreams that refuse, fail and challenge, over plain and TLS connections.
SpecAuth == Init /\ [][NextAuth]_vars

(***************************************************************************)
(*                 Properties of the InflightManager                      *)
(***************************************************************************)

\* The callers that received first=true for key and have not yet called done.
FirstCallers(key) == {p \in Callers : pc[p] = "first" /\ ckey[p] = key}

InflightTableInv ==
    \A k \in Keys :
        /\ Cardinality(FirstCallers(k)) <= 1
        /\ (inflight[k] # NoEntry) <=> (Cardinality(FirstCallers(k)) = 1)
        /\ \A p \in FirstCallers(k) : cent[p] = inflight[k]

\* A step in which caller p returns from TryStart.
TryStartReturns(p) == pc[p] = "idle" /\ pc'[p] # "idle"

TryStartRule ==
    \A p \in Callers :
        TryStartReturns(p) =>
            /\ pc'[p] \in {"first", "follower"}
            /\ (pc'[p] = "first") <=> (inflight[ckey'[p]] = NoEntry)

\* C1: under every interleaving, a key is in the inflight table if and only if
\* exactly one caller that received first=true for it has not yet called done,
\* and TryStart(k) returns first=true exactly when k is absent from the table
\* (so every TryStart(k) between a first=true return and its done returns
\* first=false, and the first one after done returns first=true again).
C1_InflightTable == []InflightTableInv /\ [][TryStartRule]_vars

\* Witness of C1: a key is held by a first caller for the second time (an
\* earlier first caller has called done) while a follower waits on it.
C1_Witness ==
    \E p, q \in Callers :
        /\ pc[p] = "first" /\ pc[q] = "waiting" /\ cent[q] = cent[p]
        /\ inflight[ckey[p]] = cent[p]
        /\ totalRequests - deduplicated >= 2
        /\ totalRequests - deduplicated > Cardinality({r \in Callers : pc[r] = "first"})

\* C2: a follower that called wait with a context that is never cancelled
\* returns once the first caller has called done(err), and returns exactly
\* err; no follower stays parked after done has run, also when it reaches wait
\* only after done.
C2_WaitReturnsDoneErr ==
    /\ [](\A p \in Callers : ~(pc[p] = "waiting" /\ entries[cent[p]].done))
    /\ [](\A p \in Callers :
            (pc[p] = "returned" /\ cctx[p] = "background") =>
                (entries[cent[p]].done /\ cres[p] = entries[cent[p]].err))
    /\ \A p \in Callers :
          (pc[p] \in {"waiting", "wake_done"} /\ cctx[p] = "background"
                /\ entries[cent[p]].done)
             ~> (pc[p] = "returned" /\ cres[p] = entries[cent[p]].err)

\* Witness of C2: a follower with a never-cancelled context has returned the
\* error the first caller passed to done.
C2_Witness ==
    \E p \in Callers :
        /\ pc[p] = "returned" /\ cctx[p] = "background"
        /\ entries[cent[p]].done /\ cres[p] = "ErrNotFound"

\* The followers of entry e that have not yet decremented its watcher count.
Watchers(e) ==
    {q \in Callers : cent[q] = e /\ pc[q] \in {"follower", "waiting", "wake_done", "wake_ctx"}}

WatchersInv ==
    \A e \in EntryIds :
        e \in Referenced(inflight, cent) => entries[e].watchers = Cardinality(Watchers(e))

\* The steps of a follower p whose context is cancelled while it is parked.
CancelledWaitRule ==
    \A p \in Callers :
        /\ (pc[p] = "waiting" /\ pc'[p] = "wake_ctx") =>
              /\ UNCHANGED <<inflight, entries, cres>>
              /\ \A q \in Callers \ {p} : pc'[q] = pc[q]
        /\ (pc[p] = "wake_ctx" /\ pc'[p] # "wake_ctx") =>
              /\ pc'[p] = "returned" /\ cres'[p] = CtxErr
              /\ entries'[cent[p]] =
                    [entries[cent[p]] EXCEPT !.watchers = entries[cent[p]].watchers - 1]
              /\ \A e \in EntryIds \ {cent[p]} : entries'[e] = entries[e]
              /\ inflight' = inflight
              /\ \A q \in Callers \ {p} : pc'[q] = pc[q] /\ cres'[q] = cres[q]

\* C3: a follower cancelled while parked in wait returns the context's error,
\* the watcher count of its entry drops by exactly one, the entry stays in the
\* table with its signal unfired, no other caller is affected, and the
\* followers that a later done releases return the first caller's error.
C3_CancelledFollower ==
    /\ []WatchersInv
    /\ [][CancelledWaitRule]_vars
    /\ [](\A q \in Callers :
            (pc[q] = "returned" /\ cres[q] # CtxErr) =>
                (entries[cent[q]].done /\ cres[q] = entries[cent[q]].err))

\* Witness of C3: p returned the context's error; its entry is still in the
\* table, unfired, with another follower parked on it.
C3_Witness ==
    \E p, q \in Callers :
        /\ p # q
        /\ pc[p] = "returned" /\ cres[p] = CtxErr
        /\ inflight[ckey[p]] = cent[p] /\ ~entries[cent[p]].done
        /\ pc[q] = "waiting" /\ cent[q] = cent[p]
        /\ entries[cent[p]].watchers = 1

(***************************************************************************)
(*                  Properties of the FileBlobStore                        *)
(***************************************************************************)

\* The digests a SHA-256 can produce for the contents of the model.
ContentDigests == {Sha256(c) : c \in Contents}

\* C4: after any sequence of Put calls, the failing ones included, every data
\* file present at the final path of a digest (indexed or not) has content
\* whose SHA-256 equals that digest.
C4_ContentAddressed ==
    \A d \in ContentDigests :
        bdata[getPath(d)] # NoFile => Sha256(bdata[getPath(d)]) = d

\* The store as C5 lists it: data files, sidecars, the blob index, the
\* descriptor cache and the statistics.
storeVars == <<bdata, bmeta, bindex, descCache, stats>>

\* Worker w runs, or has run, PutBlob with content whose SHA-256 differs from
\* the claimed non-empty digest.
ClaimDiffers(w) ==
    /\ work[w].kind = "PutBlob"
    /\ work[w].d # EmptyDigest
    /\ Sha256(work[w].c) # work[w].d

C5_StepRule ==
    \A w \in Workers :
        /\ \* the call starts: only the temp file is written
           (Free(w) /\ work'[w] # work[w] /\ ClaimDiffers(w)') =>
               UNCHANGED storeVars
        /\ \* every later step of the call
           (~Free(w) /\ work'[w] # work[w] /\ ClaimDiffers(w)) =>
               /\ UNCHANGED storeVars
               /\ work'[w].pc = "done"
               /\ work'[w].ret.err = "error"
               /\ btmp'[w] = NoFile

C5_Returned ==
    \A w \in Workers :
        (work[w].pc = "done" /\ ClaimDiffers(w)) =>
            /\ work[w].ret.err = "error"
            /\ btmp[w] = NoFile

\* C5: Put / PutBlob with content whose SHA-256 differs from the claimed
\* non-empty digest returns an error, has removed its temp file, and no step
\* of the call changes a data file, a sidecar, the index, the descriptor cache
\* or the BlobCount and TotalSize statistics.
C5_MismatchLeavesStore == []C5_Returned /\ [][C5_StepRule]_vars

\* Witness of C5: a Put whose content does not hash to the claimed digest has
\* returned while the store holds a blob under that digest from an earlier Put.
C5_Witness ==
    \E w \in Workers :
        /\ work[w].pc = "done"
        /\ ClaimDiffers(w)
        /\ work[w].ret.err = "error"
        /\ bdata[getPath(work[w].d)] # NoFile
        /\ bindex[work[w].d] # NoMeta
        /\ descCache[work[w].d] # NoDesc
        /\ stats.BlobCount = 1

\* C6: once Put(d, bytes) with sha256(bytes) = d has succeeded, and until d is
\* deleted or expires, Get(d) returns a stream with exactly bytes and Stat(d)
\* reports digest d and size len(bytes).
C6_BlobRoundTrip ==
    \A w \in Workers :
        LET d == work[w].d IN
        (/\ work[w].pc = "done"
         /\ work[w].kind \in {"Stat", "Get"}
         /\ d # EmptyDigest
         /\ stored[d] # NoStored
         /\ now < stored[d].expiresAt) =>
            /\ work[w].ret.err = "nil"
            /\ work[w].ret.digest = d
            /\ work[w].ret.size = Len(stored[d].bytes)
            /\ work[w].kind = "Get" => work[w].ret.bytes = stored[d].bytes

\* A step in which worker w returns from Stat or Get.
ReadReturns(w) ==
    /\ work[w].kind \in {"Stat", "Get"}
    /\ work[w].pc # "done"
    /\ work'[w].pc = "done"

C7_StepRule ==
    \A w \in Workers :
        LET d == work[w].d IN
        (ReadReturns(w) /\ work[w].late) =>
            /\ work'[w].ret.err # "nil"
            /\ bdata'[getPath(d)] = NoFile
            /\ bmeta'[getPath(d)] = NoMeta

\* C7: a read of the blob store called at a time after the expiry of the entry
\* put under the digest does not return the entry: it reports a miss, and when
\* it returns the stale data file and sidecar are gone from the disk.
C7_ExpiredNeverServed == [][C7_StepRule]_vars

(***************************************************************************)
(*                  Properties of the manifest caches                      *)
(***************************************************************************)

\* The lifetime the TTL policy gives a reference: the long one to a digest, the
\* short one to a tag.
PolicyTTL(ref, long, short) == IF HasPrefix(ref, "sha256:") THEN long ELSE short

C8_StepRule ==
    \A ref \in References :
        /\ (mindex'[ref] # mindex[ref] /\ mindex'[ref] # NoCacheEntry) =>
               mindex'[ref].expiresAt = now + PolicyTTL(ref, BlobTTL, ManifestTTL)
        /\ (rcIndex'[ManifestKey(ref)] # rcIndex[ManifestKey(ref)]
              /\ rcIndex'[ManifestKey(ref)] # NoItem) =>
               rcIndex'[ManifestKey(ref)].expiresAt =
                   now + PolicyTTL(ref, blobTTL, manifestTTL)

\* C8: every manifest entry that PutManifest, the unified Put or the handler's
\* Set admits to its cache expires at the write time plus the long TTL of that
\* cache when the reference starts with "sha256:", and plus the short TTL
\* otherwise.
C8_TTLByReferenceType == [][C8_StepRule]_vars

\* The last call was a Get of a reference whose last successful Put has not
\* expired and was not deleted.
GotWithinTTL ==
    /\ mres.kind = "GetManifest"
    /\ mstored[mres.ref] # NoMStored
    /\ now < mstored[mres.ref].entry.expiresAt

\* C9: Put(repo, ref, entry) followed within the entry's TTL by Get(repo, ref)
\* returns an entry equal to the one stored (descriptor, status code, headers,
\* data, timestamps), from the memory index and, after a restart, from disk.
C9_ManifestRoundTrip ==
    GotWithinTTL =>
        /\ mres.err = "nil"
        /\ mres.entry = mstored[mres.ref].entry

\* C10: after PutManifest(repo, ref, data, headers, status) succeeded,
\* GetManifest(repo, ref) within the TTL returns an entry whose data is data,
\* whose digest is the SHA-256 of data and whose size is len(data).
C10_ManifestBody ==
    (GotWithinTTL /\ mstored[mres.ref].via = "PutManifest") =>
        /\ mres.err = "nil"
        /\ mres.entry.data = mstored[mres.ref].data
        /\ mres.entry.digest = Sha256(mstored[mres.ref].data)
        /\ mres.entry.size = Len(mstored[mres.ref].data)

(***************************************************************************)
(*                 Properties of the handler of /v2/*                      *)
(***************************************************************************)

\* A step of a handler: the only steps that count an operation in the
\* specifications of the proxy.
HandlerStep == ops' = ops + 1

RedirectStatuses == {301, 302, 303, 307, 308}

\* The upstream answered the last request with a redirect whose Location is
\* an absolute or relative reference that parses.
GotRedirect(req) ==
    /\ req.r.endpoint = "/v2/*"
    /\ req.up1.status \in RedirectStatuses
    /\ req.up1.location \notin {<<>>, BadLocation}

\* The host of the Location holds one of the configured patterns.
MatchesPattern(cfg, location) ==
    \E i \in 1 .. Len(cfg.BlockedHostPatterns) :
        Contains(SubSeq(location, 2, Len(location) - 1), cfg.BlockedHostPatterns[i])
HostOfLocationBlocked(cfg, req) ==
    /\ req.up1.location[1] = "https://"
    /\ MatchesPattern(cfg, req.up1.location)

\* C11: for every upstream 301/302/303/307/308 on a /v2/* request whose
\* Location host contains a blocked-hosts pattern, the proxy follows the
\* redirect server-side (a second upstream request) and the status it writes to
\* the client is never a 3xx, also when the target of the redirect answers with
\* another redirect.  (Config has no follow-all-redirects option: that half of
\* the claim has no instance in the code.)
C11_FollowNeverRedirects ==
    (GotRedirect(pxReq) /\ HostOfLocationBlocked(pxCfg, pxReq)) =>
        /\ Len(pxUp) = 2
        /\ pxResp.status \notin 300 .. 399

\* C12: for every upstream 3xx on a /v2/* request whose Location host matches
\* no blocked-hosts pattern, or whose Location is empty or does not parse, the
\* handler sends no further upstream request, writes the upstream's status and
\* its Location unchanged, and creates no cache entry: no Set is started, and
\* no index entry or cache file appears.
Relayed(cfg, req) ==
    /\ req.r.endpoint = "/v2/*"
    /\ req.up1.status \in RedirectStatuses
    /\ \/ req.up1.location \in {<<>>, BadLocation}
       \/ ~HostOfLocationBlocked(cfg, req)
NoEntryCreated ==
    /\ pxSets' = pxSets
    /\ rcSaves' = rcSaves
    /\ \A k \in CacheKeys :
          /\ rcIndex'[k] \in {rcIndex[k], NoItem}
          /\ rcData'[k] \in {rcData[k], NoFile}
          /\ rcMeta'[k] \in {rcMeta[k], NoRcMeta}
C12_StepRule ==
    (HandlerStep /\ Relayed(pxCfg', pxReq')) =>
        /\ Len(pxUp') = 1
        /\ pxResp'.status = pxReq'.up1.status
        /\ pxResp'.location = pxReq'.up1.location
        /\ pxResp'.xcache = ""
        /\ NoEntryCreated
C13_FollowRequest ==
    Len(pxUp) = 2 =>
        pxUp[2] = [method |-> "GET", url |-> pxReq.up1.location, query |-> <<>>,
                   headers |-> [Authorization |-> "",
                                Accept |-> pxReq.r.headers.Accept,
                                Range |-> pxReq.r.headers.Range,
                                UserAgent |-> UserAgent]]

\* C14: a request whose method is not GET leaves the memory index and the
\* cache files as they were, and starts no admission.
C14_StepRule ==
    (HandlerStep /\ pxReq'.r.method # "GET") =>
        /\ rcIndex' = rcIndex
        /\ rcData' = rcData
        /\ rcMeta' = rcMeta
        /\ rcDeletes' = rcDeletes
        /\ pxSets' = pxSets
C14_NonGetLeavesCache == [][C14_StepRule]_vars

\* C15: a response is admitted only when the upstream status is 200 and the
\* body was read to the end and is not empty; hence every Set that is started
\* and every entry of the index has status 200 and data that is not empty.
Admissible(method, up) ==
    /\ up.status = 200
    /\ ~up.bodyErr
    /\ BodyOf(method, up) # <<>>
C15_Admitted ==
    /\ \A s \in pxSets : s.status = 200 /\ s.data # <<>>
    /\ \A k \in CacheKeys : rcIndex[k] # NoItem =>
          (rcIndex[k].status = 200 /\ rcIndex[k].data # <<>>)
C15_StepRule ==
    /\ (HandlerStep /\ ~Admissible(pxReq'.r.method, pxReq'.up1)) => pxSets' = pxSets
    /\ C15_Admitted'
C15_AdmitOnly200NonEmpty == [][C15_StepRule]_vars

\* C16: a cacheable GET answered 200 without a Content-Length is marked
\* X-Cache: BYPASS and is not admitted through the in-memory path.
C16_StepRule ==
    (/\ HandlerStep
     /\ pxCfg.CacheEnabled
     /\ pxReq'.r.method = "GET"
     /\ isCacheable(pxReq'.r.path)
     /\ pxReq'.up1.status = 200
     /\ pxReq'.up1.clen = -1) =>
        /\ pxResp'.xcache = "BYPASS"
        /\ pxSets' = pxSets
C16_LargeObjectBypass == [][C16_StepRule]_vars

\* C17: once a cacheable GET was answered from the upstream with X-Cache: MISS,
\* the next identical GET, issued before the TTL of the entry has passed, is
\* answered X-Cache: HIT with the same status and body and sends nothing
\* upstream, however soon after the first answer it comes.
C17_StepRule ==
    (/\ HandlerStep
     /\ pxResp.xcache = "MISS"
     /\ pxReq.r.method = "GET"
     /\ pxReq'.r = pxReq.r
     /\ now < pxReq.at + manifestTTL) =>
        /\ pxResp'.xcache = "HIT"
        /\ pxResp'.status = pxResp.status
        /\ pxResp'.body = pxResp.body
        /\ pxUp' = <<>>
C17_HitAfterMiss == [][C17_StepRule]_vars


(***************************************************************************)
(*                 Properties of the routing and the rewrites              *)
(***************************************************************************)

\* The Host value without its port, and the upstream the route table built
\* from CUSTOM_DOMAIN gives it, the fallback of the debug mode, or nothing.
WithoutPort(host) == Split(host, ":")[1]
RoutedUpstream(cfg, host) ==
    LET table == buildRoutes(cfg.CustomDomain)
    IN IF WithoutPort(host) \in DOMAIN table THEN table[WithoutPort(host)]
       ELSE IF cfg.Debug /\ cfg.TargetUpstream # <<>> THEN cfg.TargetUpstream
       ELSE <<>>
RouteTableOf(customDomain) ==
    LET table == buildRoutes(customDomain)
    IN /\ DOMAIN table = {<<l, ".">> \o customDomain : l \in Labels}
       /\ table[<<"docker-staging", ".">> \o customDomain]
              = table[<<"docker", ".">> \o customDomain]
CacheUntouched ==
    /\ UNCHANGED <<rcIndex, rcData, rcMeta, rcDeletes, rcStats, rcSaves, pxSets>>

\* C18: every handler routes its request to the upstream that the route table
\* built from CUSTOM_DOMAIN over the nine labels maps to the Host value
\* without its port (docker-staging to the upstream of docker); an unmapped
\* host gets the fallback upstream of the debug mode when one is configured and
\* nothing otherwise; and with nothing, /, /v2/, /v2/auth and /v2/* answer 404
\* with the route table, send no upstream request and leave the cache and its
\* counters alone.
C18_StepRule ==
    HandlerStep =>
        /\ RouteTableOf(pxCfg'.CustomDomain)
        /\ pxReq'.upstream = RoutedUpstream(pxCfg', pxReq'.r.host)
        /\ RoutedUpstream(pxCfg', pxReq'.r.host) = <<>> =>
              /\ pxResp'.status = 404
              /\ pxResp'.payload = "routes"
              /\ pxUp' = <<>>
              /\ CacheUntouched
C18_RouteByHost == [][C18_StepRule]_vars
C18_Witness ==
    /\ pxReq.r.endpoint = "/v2/*"
    /\ pxReq.r.host = Host \o <<":", "8080">>
    /\ pxReq.upstream = dockerHub
    /\ Len(pxUp) = 1

\* The number of segments of a path after /v2/, for a path that starts there.
SegmentsAfterV2(path) ==
    Cardinality({i \in 4 .. Len(path) : path[i] # "/"})
WithLibrary(path) ==
    <<"/", "v2", "/", "library", "/">> \o SubSeq(path, 4, Len(path))
RedirectedByRule(resp) == resp.status = 301 /\ resp.payload = "redirect"

\* C19: a request to /v2/* is answered with the 301 of the library rule
\* exactly when its route is Docker Hub and its path has three segments after
\* /v2/; the Location is the path with library/ inserted after /v2/; the
\* handler has then sent no upstream request and has not looked into the cache;
\* and the rule does not apply to the path it produced.
C19_StepRule ==
    (HandlerStep /\ pxReq'.r.endpoint = "/v2/*") =>
        /\ RedirectedByRule(pxResp') <=>
              (pxReq'.upstream = dockerHub /\ SegmentsAfterV2(pxReq'.r.path) = 3)
        /\ RedirectedByRule(pxResp') =>
              /\ pxResp'.location = WithLibrary(pxReq'.r.path)
              /\ SegmentsAfterV2(pxResp'.location) = 4
              /\ pxUp' = <<>>
              /\ CacheUntouched
RepositoryScope(scope) ==
    /\ Len(scope) >= 3
    /\ scope[1] = "repository"
    /\ scope[2] = ":"
    /\ Cardinality({i \in 3 .. Len(scope) : scope[i] = ":"}) = 1
    /\ \A i \in 3 .. Len(scope) :
          scope[i] = "/" => \E j \in 3 .. i - 1 : scope[j] = ":"
ScopeRule(scope) ==
    IF RepositoryScope(scope)
    THEN <<"repository", ":", "library", "/">> \o SubSeq(scope, 3, Len(scope))
    ELSE scope
\* The scope parameter of a token request.
ScopeSent(query) ==
    IF Index(query, "scope=") = 0 THEN <<>>
    ELSE SubSeq(query, Index(query, "scope=") + 1, Len(query))

\* C20: the scope /v2/auth forwards to the token endpoint is the client's
\* scope with repository:<name>:<action> (no slash in the name) turned into
\* repository:library/<name>:<action> when the routed upstream is Docker Hub,
\* and the client's scope unchanged for every other scope and on every other
\* route; applying the rule twice gives what applying it once gives.
C20_ScopeRewrite ==
    (pxReq.r.endpoint = "/v2/auth" /\ Len(pxUp) = 2) =>
        /\ ScopeSent(pxUp[2].query) =
              IF pxReq.upstream = dockerHub THEN ScopeRule(pxReq.r.query)
              ELSE pxReq.r.query
        /\ processDockerHubScope(processDockerHubScope(pxReq.r.query))
              = processDockerHubScope(pxReq.r.query)

\* ---- Properties of the challenge, the probe and the token exchange ----

\* The realm that points back at the proxy: the scheme of the client's
\* connection and the Host value of the request, whole in debug mode and
\* without its port otherwise.
ProxyRealm(cfg, r) ==
    <<IF r.tls THEN "https" ELSE "http", "://">>
        \o (IF cfg.Debug THEN r.host ELSE WithoutPort(r.host)) \o <<"/v2/auth">>
UpstreamRefused ==
    /\ pxReq'.r.endpoint \in {"/v2/", "/v2/*"}
    /\ Len(pxUp') >= 1
    /\ pxReq'.fails < maxRetries
    /\ ~pxReq'.up1.err
    /\ pxReq'.up1.status = 401

\* No Set goroutine is started and no entry, file or sidecar changes.
NothingAdmitted == UNCHANGED <<rcIndex, rcData, rcMeta, rcSaves, pxSets>>

\* C21: when the upstream answers 401 to the probe of /v2/ or to a request
\* proxied under /v2/*, the client gets 401 with the challenge
\* Bearer realm="<scheme>://<this-host>/v2/auth",service="go-docker-proxy" and
\* the body {"message":"UNAUTHORIZED"}; nothing of the upstream's challenge or
\* body reaches the client, and nothing is admitted to the cache.
C21_StepRule ==
    HandlerStep /\ UpstreamRefused =>
        /\ pxResp'.status = 401
        /\ pxResp'.www = {<<"realm", ProxyRealm(pxCfg', pxReq'.r)>>,
                          <<"service", <<"go-docker-proxy">>>>}
        /\ pxResp'.payload = "UNAUTHORIZED"
        /\ pxResp'.body = <<>>
        /\ pxResp'.location = <<>>
        /\ pxResp'.xcache = ""
        /\ NothingAdmitted
Backoff == <<0, 100, 200>>

\* C22: the probe of GET /v2/ is attempted at most three times, after no
\* delay, 100 ms and 200 ms; the attempts stop at the first one that the
\* upstream answers, and the proxy answers with its 502 error exactly when
\* all three attempts ended with a transport error.
C22_ProbeRetry ==
    (pxReq.r.endpoint = "/v2/" /\ pxReq.upstream # <<>>) =>
        /\ Len(pxUp) <= Len(Backoff)
        /\ Len(pxUp) = IF pxReq.fails < Len(Backoff) THEN pxReq.fails + 1 ELSE Len(Backoff)
        /\ pxReq.delays = SubSeq(Backoff, 1, Len(pxUp))
        /\ \A i \in 1 .. Len(pxUp) : pxUp[i] = pxUp[1]
        /\ (pxResp.status = 502 /\ pxResp.payload = "error") <=> pxReq.fails >= Len(Backoff)
        /\ pxReq.fails < Len(Backoff) /\ pxReq.up1.status # 401 =>
              /\ pxResp.status = pxReq.up1.status
              /\ pxResp.payload = "upstream"
C22_Witness ==
    /\ pxReq.r.endpoint = "/v2/"
    /\ pxReq.fails = 2
    /\ pxReq.delays = <<0, 100, 200>>
    /\ Len(pxUp) = 3
    /\ pxResp.status = 200

\* The last request met a transport failure that no retry made up for: every
\* attempt of the probe of /v2/, or the one request of another handler.
TransportFailed ==
    \/ /\ pxReq.r.endpoint = "/v2/"
       /\ pxReq.upstream # <<>>
       /\ pxReq.fails >= maxRetries
    \/ /\ pxReq.r.endpoint \in {"/v2/auth", "/v2/*"}
       /\ \/ Len(pxUp) = 1 /\ pxReq.up1.err
          \/ Len(pxUp) = 2 /\ pxReq.up2.err

\* C24: every transport failure of an upstream request, on the probe of
\* /v2/, on the probe and the token fetch of /v2/auth, on /v2/* and on the
\* server-side follow, reaches the client as 502 with the body {"error": ...}
\* and with no other status.
C24_TransportError ==
    TransportFailed => pxResp.status = 502 /\ pxResp.payload = "error"

\* The service parameter of a token request.
ServiceSent(query) ==
    IF query = <<>> \/ query[1] # "service=" THEN <<>>
    ELSE SubSeq(query, 2, IF Index(query, "scope=") = 0 THEN Len(query)
                          ELSE Index(query, "scope=") - 1)
ChallengeValue(up, key) ==
    IF \E p \in up.www : p[1] = key THEN (CHOOSE p \in up.www : p[1] = key)[2] ELSE <<>>
HasRealm(up) == \E p \in up.www : p[1] = "realm"

\* C25: /v2/auth sends a token request only after the probe of /v2/ was
\* answered 401 with a WWW-Authenticate header that has a realm; a header
\* without a realm gives 500 and no token request; the token request goes to
\* the realm with the service of the upstream's challenge, the client's scope
\* after the Docker Hub rewrite and the client's Authorization header, and the
\* status and the body of its response are relayed unchanged.
C25_TokenExchange ==
    (pxReq.r.endpoint = "/v2/auth" /\ pxReq.upstream # <<>>) =>
        /\ Len(pxUp) \in {1, 2}
        /\ pxUp[1].url = pxReq.upstream \o <<"/", "v2", "/">>
        /\ Len(pxUp) = 2 =>
              /\ ~pxReq.up1.err
              /\ pxReq.up1.status = 401
              /\ HasRealm(pxReq.up1)
              /\ pxUp[2].method = "GET"
              /\ pxUp[2].url = ChallengeValue(pxReq.up1, "realm")
              /\ ServiceSent(pxUp[2].query) = ChallengeValue(pxReq.up1, "service")
              /\ ScopeSent(pxUp[2].query) =
                    IF pxReq.upstream = dockerHub THEN ScopeRule(pxReq.r.query)
                    ELSE pxReq.r.query
              /\ pxUp[2].headers.Authorization = pxReq.r.headers.Authorization
              /\ ~pxReq.up2.err =>
                    /\ pxResp.status = pxReq.up2.status
                    /\ pxResp.payload = "upstream"
                    /\ pxResp.body = pxReq.up2.body
        /\ (~pxReq.up1.err /\ pxReq.up1.status = 401 /\ pxReq.up1.www # {}
                /\ ~HasRealm(pxReq.up1)) =>
              /\ pxResp.status = 500
              /\ Len(pxUp) = 1

\* ---- Properties of the counters of the InflightManager ----

\* The keys of the inflight table, which Stats counts as currentActive.
ActiveKeys == {k \in Keys : inflight[k] # NoEntry}
CountersStepRule ==
    /\ \A p \in Callers :
          TryStartReturns(p) =>
              /\ totalRequests' = totalRequests + 1
              /\ deduplicated' = deduplicated + (IF pc'[p] = "first" THEN 0 ELSE 1)
              /\ (pc'[p] = "first") <=> (FirstCallers(ckey'[p]) = {})
    /\ (\A p \in Callers : ~TryStartReturns(p)) =>
          UNCHANGED <<totalRequests, deduplicated>>
CountersInv ==
    /\ Cardinality(ActiveKeys) = Cardinality({k \in Keys : FirstCallers(k) # {}})
    /\ Cardinality(ActiveKeys) = Cardinality({p \in Callers : pc[p] = "first"})
    /\ deduplicated <= totalRequests
    /\ totalRequests - deduplicated >= Cardinality(ActiveKeys)

\* C23: totalRequests counts the TryStart calls and deduplicated those that
\* returned first=false, through every interleaving of TryStart, wait and
\* done; the number of keys in the table is the number of keys whose first
\* caller has not yet called done; and of the requests for one key that
\* arrive before its first caller is done, one is first and each of the
\* others adds one to deduplicated.
C23_Counters ==
    /\ totalRequests = 0 /\ deduplicated = 0
    /\ []CountersInv
    /\ [][CountersStepRule]_vars
C23_Witness ==
    \E k \in Keys :
        /\ \A p \in Callers : ckey[p] = k
        /\ Cardinality({p \in Callers : pc[p] = "first"}) = 1
        /\ Cardinality({p \in Callers : pc[p] \in {"follower", "waiting"}}) = NumCallers - 1
        /\ totalRequests = NumCallers
        /\ deduplicated = NumCallers - 1
        /\ ActiveKeys = {k}

\* ---- Properties of the server-side follow ----

\* The target of a followed redirect answered with a redirect of its own.
NestedRedirect(req) ==
    /\ Len(pxUp) >= 2
    /\ req.r.endpoint = "/v2/*"
    /\ ~req.up2.err
    /\ req.up2.status \in RedirectStatuses
    /\ req.up2.location # <<>>

\* C26: the server-side follow follows the redirects of its targets, up to ten
\* of them in a row, and answers 502 when an eleventh would be needed; it ends
\* for every chain of answers, a cycle of redirects included, so the client
\* gets the answer of the end of the chain or 502 and never a redirect.
C26_NestedRedirects ==
    /\ Len(pxUp) <= 11
    /\ NestedRedirect(pxReq) =>
          /\ Len(pxUp) > 2
          /\ pxResp.status \notin RedirectStatuses
          /\ Len(pxUp) = 11 => pxResp.status = 502

\* The last request was a cacheable GET answered through a follow that ended
\* in 200 with a body.
FollowedToBody(cfg, req, up) ==
    /\ cfg.CacheEnabled
    /\ req.r.endpoint = "/v2/*"
    /\ req.r.method = "GET"
    /\ isCacheable(req.r.path)
    /\ Len(up) = 2
    /\ ~req.up2.err
    /\ req.up2.status = 200
    /\ ~req.up2.bodyErr
    /\ req.up2.body # <<>>

\* C27: a cacheable GET answered through a server-side follow that ends in 200
\* with a body that is not empty is admitted under the key of the original
\* request, host and original path, and the next identical request within the
\* TTL is a HIT that sends nothing upstream.
C27_StepRule ==
    /\ (HandlerStep /\ FollowedToBody(pxCfg', pxReq', pxUp')) =>
          \E s \in pxSets' :
              /\ s.key = generateCacheKey(pxReq'.r.host, pxReq'.r.path)
              /\ s.data = pxReq'.up2.body
              /\ s.status = 200
    /\ (/\ HandlerStep
        /\ FollowedToBody(pxCfg, pxReq, pxUp)
        /\ pxCfg' = pxCfg
        /\ pxReq'.r = pxReq.r
        /\ pxSets = {}
        /\ now < pxReq.at + manifestTTL) =>
          /\ pxResp'.xcache = "HIT"
          /\ pxResp'.body = pxReq.up2.body
          /\ pxUp' = <<>>
C27_FollowAdmits == [][C27_StepRule]_vars

(***************************************************************************)
(*              Properties of Cleanup and of LoadIndex                     *)
(***************************************************************************)

\* A step in which Cleanup or LoadIndex runs from call to return.
UpkeepStep(w, kind) == ops' = ops + 1 /\ work'[w].kind = kind
Indexed(index) == {d \in Digests : index[d] # NoMeta}
ExpiredAt(m, t) == t > m.expiresAt
RECURSIVE TotalSize(_, _)
TotalSize(S, size) ==
    IF S = {} THEN 0
    ELSE LET x == CHOOSE y \in S : TRUE IN size[x] + TotalSize(S \ {x}, size)
IndexedSize(index, S) == TotalSize(S, [d \in S |-> index[d].size])

\* C28: after Cleanup(maxSize), run with no other call in progress, no entry
\* of the index has expired, the data file and the sidecar of every entry that
\* had expired are gone, the sizes of the entries that remain sum to at most
\* maxSize, no entry that had not expired is removed when their sizes summed
\* to at most maxSize already, and the count returned is the number of the
\* entries removed.
C28_StepRule ==
    \A w \in Workers :
        UpkeepStep(w, "Cleanup") =>
            LET maxSize == work'[w].maxSize
                expired == {d \in Indexed(bindex) : ExpiredAt(bindex[d], now)}
                fresh == Indexed(bindex) \ expired
                removed == Indexed(bindex) \ Indexed(bindex')
            IN /\ \A d \in Digests : bindex'[d] \in {bindex[d], NoMeta}
               /\ \A d \in Indexed(bindex') : ~ExpiredAt(bindex'[d], now)
               /\ \A d \in expired :
                     /\ bdata'[getPath(d)] = NoFile
                     /\ bmeta'[getPath(d)] = NoMeta
               /\ IndexedSize(bindex', Indexed(bindex')) <= maxSize
               /\ IndexedSize(bindex, fresh) <= maxSize =>
                     /\ removed = expired
                     /\ \A d \in fresh :
                           /\ bdata'[getPath(d)] = bdata[getPath(d)]
                           /\ bmeta'[getPath(d)] = bmeta[getPath(d)]
               /\ work'[w].ret.count = Cardinality(removed)
C28_BlobCleanup == [][C28_StepRule]_vars
C28_Witness ==
    /\ work["w1"].kind = "Cleanup"
    /\ work["w1"].maxSize = 1
    /\ work["w1"].ret.count = 1
    /\ Cardinality(Indexed(bindex)) = 1
    /\ now = 0

\* C29: FileManifestStore.Cleanup removes every expired entry from the index
\* and its file from the disk, removes no entry that has not expired, and
\* leaves no file of an expired entry of the index behind.
C29_StepRule ==
    (ops' = ops + 1 /\ mres'.kind = "Cleanup") =>
        \A ref \in References :
            IF mindex[ref] # NoCacheEntry /\ now > mindex[ref].expiresAt
            THEN /\ mindex'[ref] = NoCacheEntry
                 /\ mfile'[getManifestPath(Repo, ref)] = NoMFile
            ELSE /\ mindex'[ref] = mindex[ref]
                 /\ mfile'[getManifestPath(Repo, ref)] = mfile[getManifestPath(Repo, ref)]
C29_ManifestCleanup == [][C29_StepRule]_vars

\* What Stat(d) and Get(d) answer at time t on a store with this index and
\* these files: the descriptor and the bytes, or a miss.
Miss == [hit |-> FALSE, digest |-> EmptyDigest, size |-> -1, bytes |-> NoFile]
StatAnswer(index, meta, d, t) ==
    LET m == meta[getPath(d)]
    IN IF index[d] # NoMeta /\ t < index[d].expiresAt
       THEN [Miss EXCEPT !.hit = TRUE, !.digest = index[d].digest, !.size = index[d].size]
       ELSE IF m = NoMeta \/ m = BadMeta \/ t > m.expiresAt THEN Miss
       ELSE [Miss EXCEPT !.hit = TRUE, !.digest = m.digest, !.size = m.size]
GetAnswer(index, meta, data, d, t) ==
    LET st == StatAnswer(index, meta, d, t)
    IN IF ~st.hit \/ data[getPath(d)] = NoFile THEN Miss
       ELSE [st EXCEPT !.bytes = data[getPath(d)]]

\* C30: LoadIndex on the empty index of a new store leaves in the index
\* exactly the digests whose sidecar parses and has not expired, removes every
\* expired sidecar with its data file, returns the number and the summed
\* sizes of the entries it indexed, and Stat and Get answer afterwards what
\* they would have answered with the index the store had before.
C30_StepRule ==
    \A w \in Workers :
        UpkeepStep(w, "LoadIndex") =>
            /\ \A d \in Digests :
                  LET m == bmeta[getPath(d)]
                  IN IF m # NoMeta /\ m # BadMeta /\ ~ExpiredAt(m, now)
                     THEN bindex'[d] = m
                     ELSE bindex'[d] = NoMeta
            /\ \A f \in BlobPaths :
                  (bmeta[f] # NoMeta /\ bmeta[f] # BadMeta /\ ExpiredAt(bmeta[f], now)) =>
                      (bmeta'[f] = NoMeta /\ bdata'[f] = NoFile)
            /\ work'[w].ret.count = Cardinality(Indexed(bindex'))
            /\ work'[w].ret.size = IndexedSize(bindex', Indexed(bindex'))
            /\ \A d \in Digests, t \in now .. MaxTime + BlobTTL :
                  /\ StatAnswer(bindex', bmeta', d, t) = StatAnswer(bindex, bmeta, d, t)
                  /\ GetAnswer(bindex', bmeta', bdata', d, t)
                        = GetAnswer(bindex, bmeta, bdata, d, t)
C30_LoadIndex == [][C30_StepRule]_vars

(***************************************************************************)
(*                 Properties of the rebuilt manifest index                *)
(***************************************************************************)

ManifestStep(kind) == ops' = ops + 1 /\ mres'.kind = kind

\* C31: LoadIndex enters every manifest file that parses and has not expired
\* in the index under getKey(repo, reference), the key Get, Delete and Cleanup
\* use, and Delete(repo, reference) leaves no entry of the index for that
\* manifest.
C31_StepRule ==
    /\ ManifestStep("LoadIndex") =>
           \A ref \in References :
               LET f == mfile[getManifestPath(Repo, ref)]
               IN ManifestLoads(f) => mindex'[ref] = Unmarshal(f.doc)
    /\ ManifestStep("Delete") =>
           /\ mindex'[mres'.ref] = NoCacheEntry
           /\ mindexByPath'[getManifestPath(Repo, mres'.ref)] = NoCacheEntry
C31_IndexRebuild == [][C31_StepRule]_vars

(***************************************************************************)
(*              Properties of the blob store among goroutines              *)
(***************************************************************************)

\* Stat has missed the index and returns from its disk path.
StatDiskStep(w) == work[w].pc = "stat_disk" /\ work'[w].pc = "done"
Orphaned(path) == Parses(bmeta[path]) /\ bdata[path] = NoFile
StatMisses == {"ErrNotFound", "ErrExpired"}

\* C32: when Stat misses the index, a sidecar that does not parse and a
\* sidecar without data file are removed and Stat reports not-found, an
\* expired sidecar is removed with its data file and Stat reports not-found,
\* and in none of these cases the index gets an entry.
C32_StepRule ==
    \A w \in Workers :
        StatDiskStep(w) =>
            LET path == getPath(work[w].d)
                m == bmeta[path]
            IN /\ (m = BadMeta \/ Orphaned(path)) =>
                      /\ bmeta'[path] = NoMeta
                      /\ work'[w].ret.err \in StatMisses
                      /\ bindex' = bindex
               /\ (Parses(m) /\ SidecarExpired(m)) =>
                      /\ bmeta'[path] = NoMeta
                      /\ bdata'[path] = NoFile
                      /\ work'[w].ret.err \in StatMisses
                      /\ bindex' = bindex
C32_StatSelfHealing == [][C32_StepRule]_vars

(***************************************************************************)
(*                    Properties of CacheManager.GetBlob                   *)
(***************************************************************************)

\* A goroutine has called GetBlob and the call has returned.
\* C33: GetBlob reports a hit only for a digest whose data file is there and
\* whose entry has not expired, and hands out the bytes of that file; when
\* the descriptor cache holds the digest and the call is not a hit, the
\* descriptor is evicted; every call that is not a hit returns ErrNotFound
\* and adds one to blobMisses and nothing to blobHits, and every hit adds one
\* to blobHits and nothing to blobMisses.
GetBlobStep(w) ==
    UpkeepStep(w, "GetBlob") /\ \A v \in Workers \ {w} : work'[v] = work[v]
C33_StepRule ==
    \A w \in Workers :
        GetBlobStep(w) =>
            LET d == work'[w].d
                path == getPath(d)
                ret == work'[w].ret
                held == descCache[d] # NoDesc
            IN /\ ret.err \in {"nil", "ErrNotFound"}
               /\ ret.err = "nil" =>
                      /\ bdata[path] # NoFile
                      /\ ret.bytes = bdata[path]
                      /\ bdata'[path] = bdata[path]
                      /\ bindex'[d] # NoMeta /\ ~(now > bindex'[d].expiresAt)
                      /\ descCache'[d] # NoDesc
                      /\ stats' = [stats EXCEPT !.BlobHits = @ + 1]
               /\ ret.err # "nil" =>
                      /\ ret.bytes = NoFile
                      /\ descCache'[d] = NoDesc
                      /\ stats' = [stats EXCEPT !.BlobMisses = @ + 1]
               /\ (held /\ bdata[path] = NoFile) => ret.err = "ErrNotFound"
C33_GetBlob == [][C33_StepRule]_vars
C33_Witness ==
    /\ work["w1"].kind = "GetBlob"
    /\ work["w1"].desc # NoDesc
    /\ work["w1"].ret.err = "ErrNotFound"
    /\ bdata[getPath(work["w1"].d)] = NoFile
    /\ descCache[work["w1"].d] = NoDesc
    /\ stats.BlobMisses = 1
    /\ stats.BlobHits = 0

\* C34: once every operation of the goroutines has returned, the data file
\* and the sidecar of a digest are both present or both absent, and the index
\* holds a digest only if both files are present.
C34_FilesAndIndex ==
    (\A w \in Workers : Free(w)) =>
        \A d \in Digests :
            LET path == getPath(d)
            IN /\ (bdata[path] = NoFile) <=> (bmeta[path] = NoMeta)
               /\ bindex[d] # NoMeta => (bdata[path] # NoFile /\ bmeta[path] # NoMeta)

(***************************************************************************)
(*                 Properties of CacheManager.Close                        *)
(***************************************************************************)

\* A cleanup pass starts: the loop leaves its select for cm.cleanup().
PassStarts == cmLife.loop = "select" /\ cmLife'.loop = "manifests"

\* C35: once Close has been called no cleanup pass starts (the one in
\* progress at most is finished), and none starts after Close has returned.
C35_StepRule == PassStarts => cmLife.close = "idle"
C35_CloseStopsCleanup == [][C35_StepRule]_vars

\* What holds of Close: under SpecLifeFair a Close that waits returns; no
\* pass starts after Close has returned; Close returns only after the loop
\* has exited.
CloseReturns == (cmLife.close = "waiting") ~> (cmLife.close = "returned")
NoPassAfterReturn == [][PassStarts => cmLife.close # "returned"]_vars
ReturnedAfterExit == cmLife.close = "returned" => cmLife.loop = "exited"

(***************************************************************************)
(*              Properties of CacheManager.TryInflight                     *)
(***************************************************************************)

\* A follower's wait returns in this step.
WaitReturns(q) == pc[q] \in {"wake_done", "wake_ctx"} /\ pc'[q] = "returned"

\* What the follower's wrapped wait hands back once waitFn has returned.
WaitOutcome(q) == wrappedWait(cres[q])

\* The first caller p resolves its key in this step.
Resolves(p) == pc[p] = "first" /\ entries[cent[p]].done = FALSE /\ pc'[p] = "idle"

\* The outcome a follower is to see of an entry the first caller has resolved.
Propagated(e) ==
    IF entries[e].err = "ErrNotFound"
    THEN [result |-> "nil", err |-> "ErrNotFound"]
    ELSE [result |-> "Cached", err |-> "nil"]

\* A wrapped done called with result r leaves ErrNotFound in the entry
\* exactly when r is a result with Cached = false.
DoneRule ==
    \A p \in Callers, r \in InflightResults :
        InflightDone(p, r) =>
            \A q \in Callers \ {p} :
                cent[q] = cent[p] =>
                    /\ entries'[cent[q]].done
                    /\ entries'[cent[q]].err = "ErrNotFound" <=> r = "NotCached"

\* The outcome of a wait that returns through the completion signal.
WaitDoneRule ==
    \A q \in Callers :
        (WaitReturns(q) /\ pc[q] = "wake_done") =>
            /\ entries[cent[q]].done
            /\ wrappedWait(cres'[q]) = Propagated(cent[q])

\* The outcome of a wait that returns through its context.
WaitCtxRule ==
    \A q \in Callers :
        (WaitReturns(q) /\ pc[q] = "wake_ctx") =>
            wrappedWait(cres'[q]) = [result |-> "nil", err |-> CtxErr]

\* Who holds which function: only a first caller changes an entry's signal
\* or error, and only a follower waits.
HandedRule ==
    /\ \A e \in EntryIds :
          (entries'[e].done # entries[e].done \/ entries'[e].err # entries[e].err) =>
              \/ \E p \in Callers :
                    /\ Resolves(p) /\ cent[p] = e
                    /\ TryInflightReturn(TRUE).done
              \/ entries'[e] = NewEntry
    /\ \A q \in Callers :
          pc'[q] \in {"waiting", "wake_done", "wake_ctx", "returned"} =>
              /\ pc[q] # "first"
              /\ TryInflightReturn(FALSE).wait /\ ~TryInflightReturn(FALSE).done
              /\ ~TryInflightReturn(TRUE).wait

\* C36 as stated: every wait that returns after the first caller has finished
\* returns an error (ErrNotFound) and no result when the first caller's result
\* had Cached = false, and a result with Cached = true and no error otherwise.
C36_AsStated ==
    [][\A q \in Callers :
          (WaitReturns(q) /\ entries[cent[q]].done) =>
              wrappedWait(cres'[q]) = Propagated(cent[q])]_vars

\* C36: a follower whose wait returns through the completion signal gets an
\* error (ErrNotFound) and no result when the first caller finished with
\* Cached = false, and a result with Cached = true and no error when it
\* finished with nil or Cached = true; a follower whose context is done gets
\* the context's error and no result, also after the first caller has
\* finished; a follower never holds the done function and a first caller
\* never the wait function.
C36_OutcomePropagation ==
    [][DoneRule /\ WaitDoneRule /\ WaitCtxRule /\ HandedRule]_vars

\* Two followers of one resolved key, the first caller having finished with
\* Cached = false: one returned ErrNotFound through the completion signal,
\* the other its context's error.
C36_Witness ==
    \E q1, q2 \in Callers :
        /\ q1 # q2
        /\ pc[q1] = "returned" /\ pc[q2] = "returned"
        /\ cent[q1] = cent[q2]
        /\ entries[cent[q1]].done /\ entries[cent[q1]].err = "ErrNotFound"
        /\ WaitOutcome(q1) = [result |-> "nil", err |-> "ErrNotFound"]
        /\ WaitOutcome(q2) = [result |-> "nil", err |-> CtxErr]

(***************************************************************************)
(*            Properties of the expiry of DockerRegistryCache              *)
(***************************************************************************)

\* The client's Get of key returns in this step.
CacheGetStep(key) == ops' = ops + 1 /\ rcRes'.kind = "Get" /\ rcRes'.key = key

\* The verdicts of the two checks on an item that expires at e, at the
\* instant t: Get on the index entry (cache.go:144), loadFromFile on the
\* sidecar that saveToFile wrote of it (cache.go:235).
MemoryExpired(t, e) == ~(t < e)
DiskExpired(t, e) == Unix(t) > Unix(e)

\* A Get after the expiry of the item last Set finds nothing, whether the
\* index or the files answer.
ExpiredRule ==
    \A key \in RegistryKeys :
        (CacheGetStep(key) /\ rcRes.set[key] # NoItem /\ now > rcRes.set[key].expiresAt) =>
            ~rcRes'.found

\* Where the index holds the item as Set made it and the sidecar is the one
\* saveToFile wrote of it, the two checks give one verdict.
AgreeRule ==
    \A key \in RegistryKeys :
        (/\ CacheGetStep(key)
         /\ rcIndex[key] # NoItem /\ rcIndex[key] = rcRes.set[key]
         /\ rcMeta[key] = RcMetaFile(rcIndex[key])) =>
            (MemoryExpired(now, rcIndex[key].expiresAt)
                <=> DiskExpired(now, rcIndex[key].expiresAt))

\* C37: a Get at any time after the expiresAt of the item that was Set returns
\* not-found, also less than a second after it and through the reload from
\* the disk, and the check on the index and the check on the sidecar never
\* disagree about an item.
C37_ExpiredNeverServed == [][ExpiredRule /\ AgreeRule]_vars

\* The two halves on their own.
ExpiredNeverFound == [][ExpiredRule]_vars
ChecksAgree == [][AgreeRule]_vars

(***************************************************************************)
(*                  Properties of the cache keys                           *)
(***************************************************************************)

\* CacheManager.Get of a cache key returns an entry in this step.
ManagerGetFinds == ops' = ops + 1 /\ mres'.kind = "Get" /\ mres'.err = "nil"

\* The entry a Get returns was stored for the cache key of that Get.
IsolationRule ==
    ManagerGetFinds =>
        /\ mstored[mres'.ref] # NoMStored
        /\ mstored[mres'.ref].key = mres'.key

\* Cache keys that differ in the repository or the reference ParsePath takes
\* of them come to different keys of the manifest store (getKey is injective
\* on the pairs of the model).
KeysApart ==
    \A k1, k2 \in ManagerKeys :
        (<<ParsePath(k1).repo, ParsePath(k1).ref>> # <<ParsePath(k2).repo, ParsePath(k2).ref>>)
            => StoreKey(k1) # StoreKey(k2)

\* C38: a manifest stored for one (host, repository, reference) is never
\* returned to a request for another: two cache keys that differ in the host
\* (the hosts routing to different upstreams), in the repository or in the
\* reference never share an entry of the manifest store.
C38_KeyIsolation == [][IsolationRule]_vars

\* The half of it about the hosts: an entry stored for a cache key is not
\* returned for a key with the same path and another host.
PathOf(cacheKey) == SubSeq(cacheKey, IndexOf(cacheKey, <<"/", "v2", "/">>), Len(cacheKey))
HostIsolation ==
    [][(ManagerGetFinds /\ mstored[mres'.ref] # NoMStored
          /\ PathOf(mstored[mres'.ref].key) = PathOf(mres'.key))
         => mstored[mres'.ref].key = mres'.key]_vars

(***************************************************************************)
(*              Properties of the cache and the credentials                *)
(***************************************************************************)

\* C39: what the upstream released to a request with an Authorization header
\* is never served to a request without one: before an upstream that refuses
\* every request without the token, a client without it gets the refusal,
\* whatever other clients fetched before, and never the manifest or a HIT.
C39_StepRule ==
    (HandlerStep /\ pxReq'.r.headers.Authorization = "") =>
        /\ pxResp'.xcache # "HIT"
        /\ pxResp'.status = 401
        /\ pxResp'.body # Released.body
C39_CredentialIsolation == [][C39_StepRule]_vars

(***************************************************************************)
(*             Properties of the statistics of CacheManager                *)
(***************************************************************************)

\* What the stores hold: the digests and the keys of their indexes.
StoredBlobs == {d \in Digests : bindex[d] # NoMeta}
StoredManifests == {ref \in References : mindex[ref] # NoCacheEntry}
LoadedManifests == {p \in ManifestPaths : mindexByPath[p] # NoCacheEntry}

\* C40: once every call has returned, blobCount is the number of blobs in the
\* blob store, manifestCount the number of stored manifests and totalSize the
\* sum of their sizes.
C40_StatsConsistent ==
    (\A w \in Workers : Free(w)) =>
        /\ stats.BlobCount = Cardinality(StoredBlobs)
        /\ stats.ManifestCount = Cardinality(StoredManifests) + Cardinality(LoadedManifests)
        /\ stats.TotalSize =
              SumSizes(StoredBlobs, bindex) + SumSizes(StoredManifests, mindex)
                  + SumSizes(LoadedManifests, mindexByPath)

\* The ways the counters leave the stores, each a state no call is running in:
\* an entry put twice and counted twice; an entry gone by expiry or by a sweep
\* and still counted; counts of loadIndex stored over a later Put.
CountedTwice ==
    (\A w \in Workers : Free(w)) =>
        stats.ManifestCount <= Cardinality(References) /\ stats.BlobCount <= Cardinality(Digests)
NoStaleCount ==
    (\A w \in Workers : Free(w)) =>
        stats.BlobCount <= Cardinality(StoredBlobs)
NoLostCount ==
    (\A w \in Workers : Free(w) /\ work[Loader].kind = "loadIndex") =>
        stats.BlobCount >= Cardinality(StoredBlobs)

====
